---------------------------- MODULE Spec2Model ----------------------------
(***************************************************************************)
(* A model of the laminar semi-reliable UDP transport: the external ack    *)
(* record, the packet serializer/fragmenter, the virtual connection and    *)
(* the socket's event loop.                                                *)
(*                                                                         *)
(* Conventions.                                                            *)
(*  - A u16 is a number in 0..65535; wrapping arithmetic is written out.   *)
(*  - A u32 bit field (ack_field) is the set of its set bit positions,     *)
(*    a subset of 0..31 (bit 0 = least significant).  Shifts and ors are   *)
(*    defined on that set; the wire encoding turns it into four bytes.     *)
(*  - A byte string (payload, datagram) is a sequence of numbers 0..255.   *)
(*  - Time is a logical clock counting seconds.                            *)
(***************************************************************************)
EXTENDS Integers, Sequences, FiniteSets, TLC

VARIABLES
    \* ---- the transport (LaminarSocket and its environment) ----
    config,          \* SocketConfig of the socket
    connections,     \* ActiveConnections: address -> VirtualConnection
    now,             \* the clock read by Instant::now()
    socket_in,       \* datagrams the OS holds for recv_from, oldest first
    socket_out,      \* every datagram handed to socket.send_to, in order
    packet_channel,  \* packets submitted by callers, not yet taken by the loop
    event_channel,   \* every SocketEvent published by the loop, in order
    pc,              \* position of the loop in start_polling
    last_send,       \* what the latest send_to call did
    last_recv,       \* what the latest receive_from call did
    submitted,       \* number of packets submitted so far
    arrived,         \* number of datagrams that arrived so far
    \* ---- ExternalAcks exercised on its own ----
    acks,            \* the record
    acks_prev,       \* the record before the latest ack call
    acks_arg,        \* the argument of the latest ack call (None before any)
    acks_received,   \* every sequence number passed to ack so far
    \* ---- ProcessedPacket::fragments exercised on its own ----
    frag_in,         \* the processed packet and the configuration
    frag_out,        \* the result of fragments (status NoCall before the call)
    \* ---- history, kept by the specifications that need it ----
    wire_log,        \* every datagram that reached the socket, in arrival order
    \* ---- the far end of a link, in the specifications that have one ----
    peer_connections, \* the ActiveConnections of the peer's socket
    peer_events,     \* every SocketEvent the peer's loop published, in order
    carried,         \* how many datagrams of socket_out the network has handled
    drops,           \* how many of them it dropped
    \* ---- the header codecs exercised on their own ----
    codec_in,        \* the header to encode, with its kind (None elsewhere)
    codec_bytes,     \* the result of write (err NoCall before the call)
    codec_out        \* the result of read on those bytes (err NoCall before)

vars == <<config, connections, now, socket_in, socket_out, packet_channel,
          event_channel, pc, last_send, last_recv, submitted, arrived,
          acks, acks_prev, acks_arg, acks_received, frag_in, frag_out, wire_log,
          peer_connections, peer_events, carried, drops,
          codec_in, codec_bytes, codec_out>>

sysVars == <<config, connections, now, socket_in, socket_out, packet_channel,
             event_channel, pc, last_send, last_recv, submitted, arrived>>

acksVars == <<acks, acks_prev, acks_arg, acks_received>>

fragVars == <<frag_in, frag_out>>

\* What the transport's actions leave alone.
unitVars == <<acks, acks_prev, acks_arg, acks_received, frag_in, frag_out, wire_log,
              peer_connections, peer_events, carried, drops,
              codec_in, codec_bytes, codec_out>>

codecVars == <<codec_in, codec_bytes, codec_out>>

linkVars == <<peer_connections, peer_events, carried, drops>>

histVars == <<wire_log, peer_connections, peer_events, carried, drops,
              codec_in, codec_bytes, codec_out>>

\* Option values: None, and Some(x) holding x.
None == << >>

Some(x) == <<x>>

\* No error.
Ok == "Ok"

\* The status of a call that has not been made yet.
NoCall == "NoCall"

-----------------------------------------------------------------------------
(* Fixed-width arithmetic *)

U16 == 65536

U8 == 256

\* Faulty variant of wrapping_sub: the difference is not reduced modulo 2^16.
wrapping_sub_unreduced(a, b) == a - b

wrapping_sub(a, b) == (a - b + U16) % U16

\* Faulty variant of wrapping_add: the sum is not reduced modulo 2^16.
wrapping_add_unreduced(a, b) == a + b

wrapping_add(a, b) == (a + b) % U16

Pow2(n) == 2 ^ n

Min(a, b) == IF a < b THEN a ELSE b

Max(a, b) == IF a > b THEN a ELSE b

-----------------------------------------------------------------------------
(* ExternalAcks *)

\* ExternalAcks::default(): both fields zero.
ExternalAcks_default == [last_sequence_num |-> 0, ack_field |-> {}]

\* Faulty variant of the shift: bits moved past bit 31 wrap around.
Shl_rotating(field, k) == {(n + k) % 32 : n \in field}

\* (field << k) on a u32: bits moved past bit 31 are lost.
Shl(field, k) == {n + k : n \in field} \cap (0..31)

\* The cutoff below which a forward distance counts as "newer".
NewerCutoff == 32000

\* Width of the ack window behind last_sequence_num.
AckWindow == 32

\* Faulty variant of ack: a repeated last_sequence_num is shifted in as if it
\* were the next packet.
ExternalAcks_ack_repeating(self, sequence_num) ==
    LET pos_diff == wrapping_sub(sequence_num, self.last_sequence_num)
        neg_diff == wrapping_sub(self.last_sequence_num, sequence_num)
    IN  IF pos_diff < NewerCutoff
        THEN [last_sequence_num |-> sequence_num,
              ack_field |-> IF pos_diff <= AckWindow
                            THEN Shl(Shl(self.ack_field, 1) \cup {0}, Max(pos_diff, 1) - 1)
                            ELSE {}]
        ELSE IF neg_diff <= AckWindow
             THEN [self EXCEPT !.ack_field = @ \cup {neg_diff - 1}]
             ELSE self

\* Faulty variant of ack: any older number is recorded, at the bit its
\* distance has modulo the window.
ExternalAcks_ack_any_older(self, sequence_num) ==
    LET pos_diff == wrapping_sub(sequence_num, self.last_sequence_num)
        neg_diff == wrapping_sub(self.last_sequence_num, sequence_num)
    IN  IF pos_diff = 0 THEN self
        ELSE IF pos_diff < NewerCutoff
             THEN [last_sequence_num |-> sequence_num,
                   ack_field |-> IF pos_diff <= AckWindow
                                 THEN Shl(Shl(self.ack_field, 1) \cup {0}, pos_diff - 1)
                                 ELSE {}]
             ELSE [self EXCEPT !.ack_field = @ \cup {(neg_diff - 1) % AckWindow}]

\* Faulty variant of ack: an older number is recorded one bit too far back.
ExternalAcks_ack_off_by_one(self, sequence_num) ==
    LET pos_diff == wrapping_sub(sequence_num, self.last_sequence_num)
        neg_diff == wrapping_sub(self.last_sequence_num, sequence_num)
    IN  IF pos_diff = 0 THEN self
        ELSE IF pos_diff < NewerCutoff
             THEN [last_sequence_num |-> sequence_num,
                   ack_field |-> IF pos_diff <= AckWindow
                                 THEN Shl(Shl(self.ack_field, 1) \cup {0}, pos_diff - 1)
                                 ELSE {}]
             ELSE IF neg_diff <= AckWindow
                  THEN [self EXCEPT !.ack_field = (@ \cup {neg_diff}) \cap (0..31)]
                  ELSE self

\* ExternalAcks::ack
ExternalAcks_ack(self, sequence_num) ==
    LET pos_diff == wrapping_sub(sequence_num, self.last_sequence_num)
        neg_diff == wrapping_sub(self.last_sequence_num, sequence_num)
    IN  IF pos_diff = 0 THEN self
        ELSE IF pos_diff < NewerCutoff
             THEN [last_sequence_num |-> sequence_num,
                   ack_field |-> IF pos_diff <= AckWindow
                                 THEN Shl(Shl(self.ack_field, 1) \cup {0}, pos_diff - 1)
                                 ELSE {}]
             ELSE IF neg_diff <= AckWindow
                  THEN [self EXCEPT !.ack_field = @ \cup {neg_diff - 1}]
                  ELSE self

\* Faulty variant of last_acked: the value of a fresh record.
ExternalAcks_last_acked_fresh(self) == ExternalAcks_default.last_sequence_num

\* ExternalAcks::last_acked
ExternalAcks_last_acked(self) == self.last_sequence_num

\* ExternalAcks::ack_field
ExternalAcks_ack_field(self) == self.ack_field

\* Sequence numbers the peer's datagrams carry in the ack-record runs.
AckInputs == {0, 1, 2, 33, 34, 31999, 32000, 32767, 32768, 65535}

InitAcksVars ==
    /\ acks = ExternalAcks_default
    /\ acks_prev = ExternalAcks_default
    /\ acks_arg = None
    /\ acks_received = {}

\* One call acks.ack(s).
AckCall ==
    \E s \in AckInputs :
        /\ acks' = ExternalAcks_ack(acks, s)
        /\ acks_prev' = acks
        /\ acks_arg' = Some(s)
        /\ acks_received' = acks_received \cup {s}

-----------------------------------------------------------------------------
(* Wire encoding of integers (byteorder, big-endian) *)

\* The value of bits base..base+7 of a bit field, as one byte.
ByteOfBits(bits, base) ==
    (IF base     \in bits THEN 1   ELSE 0) + (IF base + 1 \in bits THEN 2   ELSE 0) +
    (IF base + 2 \in bits THEN 4   ELSE 0) + (IF base + 3 \in bits THEN 8   ELSE 0) +
    (IF base + 4 \in bits THEN 16  ELSE 0) + (IF base + 5 \in bits THEN 32  ELSE 0) +
    (IF base + 6 \in bits THEN 64  ELSE 0) + (IF base + 7 \in bits THEN 128 ELSE 0)

\* The set bits of every byte value.
ByteBits == [b \in 0..255 |-> {j \in 0..7 : (b \div Pow2(j)) % 2 = 1}]

\* The set bits of byte b, numbered from base.
BitsOfByte(b, base) == {base + i : i \in ByteBits[b]}

\* write_u32::<BigEndian>
write_u32(bits) ==
    <<ByteOfBits(bits, 24), ByteOfBits(bits, 16), ByteOfBits(bits, 8), ByteOfBits(bits, 0)>>

\* read_u32::<BigEndian> of four bytes
read_u32(b) ==
    BitsOfByte(b[1], 24) \cup BitsOfByte(b[2], 16) \cup BitsOfByte(b[3], 8) \cup BitsOfByte(b[4], 0)

\* write_u16::<BigEndian>
write_u16(v) == <<v \div U8, v % U8>>

\* Faulty variant of read_u16: the bytes are taken in little-endian order.
read_u16_little_endian(b) == b[1] + b[2] * U8

\* read_u16::<BigEndian> of two bytes
read_u16(b) == b[1] * U8 + b[2]

\* The bit field of a number below 2^31.
BitsOfNat(v) == {i \in 0..30 : (v \div Pow2(i)) % 2 = 1}

-----------------------------------------------------------------------------
(* Protocol version *)

\* VERSION_CRC32: the CRC32 of "<name>-<version>".  The value is fixed by the
\* build; any one 32-bit value stands for it.
VERSION_CRC32 == BitsOfNat(305419896)

get_crc32 == VERSION_CRC32

\* Faulty variant of valid_version: every version is taken as the local one.
valid_version_unchecked(protocol_version_crc32) == TRUE

valid_version(protocol_version_crc32) == protocol_version_crc32 = get_crc32

-----------------------------------------------------------------------------
(* Packet types, delivery methods, headers *)

\* PacketType::get_id
get_id(packet_type) ==
    CASE packet_type = "Packet" -> 0
      [] packet_type = "Fragment" -> 1
      [] packet_type = "HeartBeat" -> 2
      [] packet_type = "Disconnect" -> 3
      [] packet_type = "Unknown" -> 255

\* PacketType::get_packet_type
get_packet_type(packet_type_id) ==
    CASE packet_type_id = 0 -> "Packet"
      [] packet_type_id = 1 -> "Fragment"
      [] packet_type_id = 2 -> "HeartBeat"
      [] packet_type_id = 3 -> "Disconnect"
      [] OTHER -> "Unknown"

DeliveryMethods ==
    <<"UnreliableUnordered", "ReliableUnordered", "UnreliableSequenced",
      "ReliableSequenced", "ReliableOrdered">>

\* DeliveryMethod::get_delivery_method_id
get_delivery_method_id(delivery_method) ==
    CHOOSE i \in 0..4 : DeliveryMethods[i + 1] = delivery_method

\* DeliveryMethod::get_delivery_method_from_id, on the identifiers in use
get_delivery_method_from_id(delivery_method_id) == DeliveryMethods[delivery_method_id + 1]

\* StandardHeader::new
StandardHeader_new(delivery_method, packet_type, sequence_num) ==
    [protocol_version |-> get_crc32, packet_type |-> packet_type,
     delivery_method |-> delivery_method, sequence_num |-> sequence_num]

\* <StandardHeader as HeaderWriter>::write
StandardHeader_write(h) ==
    write_u32(h.protocol_version) \o <<get_id(h.packet_type)>> \o
    <<get_delivery_method_id(h.delivery_method)>> \o write_u16(h.sequence_num)

\* StandardHeader::size
HEADER_SIZE == Len(StandardHeader_write(StandardHeader_new("UnreliableUnordered", "Packet", 0)))

\* <StandardHeader as HeaderReader>::read: the header, or the cursor's error
\* when fewer than eight bytes remain.
StandardHeader_read(b) ==
    IF Len(b) < 8 THEN [err |-> "UnexpectedEof"]
    ELSE [err |-> Ok,
          header |-> [protocol_version |-> read_u32(SubSeq(b, 1, 4)),
                      packet_type |-> get_packet_type(b[5]),
                      delivery_method |-> get_delivery_method_from_id(b[6]),
                      sequence_num |-> read_u16(SubSeq(b, 7, 8))],
          rest |-> SubSeq(b, 9, Len(b))]

\* ReliableHeader::new(last_acked, ack_field)
ReliableHeader_new(last_acked, ack_field) == [last_acked |-> last_acked, ack_field |-> ack_field]

\* <ReliableHeader as HeaderWriter>::write
ReliableHeader_write(h) == write_u16(h.last_acked) \o write_u32(h.ack_field)

\* <ReliableHeader as HeaderReader>::read
ReliableHeader_read(b) ==
    IF Len(b) < 6 THEN [err |-> "UnexpectedEof"]
    ELSE [err |-> Ok,
          header |-> ReliableHeader_new(read_u16(SubSeq(b, 1, 2)), read_u32(SubSeq(b, 3, 6))),
          rest |-> SubSeq(b, 7, Len(b))]

\* FragmentHeader::new(id, num_fragments)
FragmentHeader_new(id, num_fragments) == [id |-> id, num_fragments |-> num_fragments]

\* <FragmentHeader as HeaderWriter>::write
FragmentHeader_write(h) == <<h.id, h.num_fragments>>

\* <FragmentHeader as HeaderReader>::read
FragmentHeader_read(b) ==
    IF Len(b) < 2 THEN [err |-> "UnexpectedEof"]
    ELSE [err |-> Ok, header |-> FragmentHeader_new(b[1], b[2]), rest |-> SubSeq(b, 3, Len(b))]

-----------------------------------------------------------------------------
(* The header files as they stand among the sources: reliable.rs with three *)
(* fields, acked.rs, and fragment.rs with an embedded standard header and    *)
(* an optional packet header                                                 *)

\* ReliableHeader::new of reliable.rs
reliable_rs_new(sequence_num, last_acked, ack_field) ==
    [sequence_num |-> sequence_num, last_acked |-> last_acked, ack_field |-> ack_field]

\* <ReliableHeader as HeaderWriter>::write of reliable.rs
reliable_rs_write(h) ==
    [err |-> Ok,
     bytes |-> write_u16(h.sequence_num) \o write_u16(h.last_acked) \o write_u32(h.ack_field)]

\* <ReliableHeader as HeaderReader>::read of reliable.rs
reliable_rs_read(b) ==
    IF Len(b) < 8 THEN [err |-> "UnexpectedEof", header |-> None]
    ELSE [err |-> Ok,
          header |-> Some(reliable_rs_new(read_u16(SubSeq(b, 1, 2)), read_u16(SubSeq(b, 3, 4)),
                                          read_u32(SubSeq(b, 5, 8))))]

\* AckedPacketHeader::new
AckedPacketHeader_new(standard_header, sequence_num, last_acked, ack_field) ==
    [standard_header |-> standard_header, sequence_num |-> sequence_num,
     last_acked |-> last_acked, ack_field |-> ack_field]

\* <AckedPacketHeader as HeaderWriter>::write
AckedPacketHeader_write(h) ==
    StandardHeader_write(h.standard_header) \o write_u16(h.sequence_num) \o
    write_u16(h.last_acked) \o write_u32(h.ack_field)

\* <AckedPacketHeader as HeaderReader>::read
AckedPacketHeader_read(b) ==
    LET std == StandardHeader_read(b)
    IN  IF std.err # Ok \/ Len(std.rest) < 8 THEN [err |-> "UnexpectedEof", header |-> None]
        ELSE [err |-> Ok,
              header |-> Some(AckedPacketHeader_new(std.header,
                                                    read_u16(SubSeq(std.rest, 1, 2)),
                                                    read_u16(SubSeq(std.rest, 3, 4)),
                                                    read_u32(SubSeq(std.rest, 5, 8))))]

\* FragmentHeader::new of fragment.rs
fragment_rs_new(standard_header, id, num_fragments, packet_header) ==
    [standard_header |-> standard_header, sequence_num |-> packet_header.sequence_num,
     id |-> id, num_fragments |-> num_fragments, packet_header |-> Some(packet_header)]

\* FragmentHeader::default of fragment.rs
fragment_rs_default ==
    [standard_header |-> StandardHeader_new("UnreliableUnordered", "Packet", 0),
     sequence_num |-> 0, id |-> 0, num_fragments |-> 0, packet_header |-> None]

\* <FragmentHeader as HeaderWriter>::write of fragment.rs: the packet header
\* is appended to the first fragment only.
fragment_rs_write(h) ==
    LET head == StandardHeader_write(h.standard_header) \o write_u16(h.sequence_num) \o
                <<h.id, h.num_fragments>>
    IN  IF h.id # 0 THEN [err |-> Ok, bytes |-> head]
        ELSE IF h.packet_header = None THEN [err |-> "PacketHeaderNotFound", bytes |-> head]
        ELSE [err |-> Ok, bytes |-> head \o AckedPacketHeader_write(h.packet_header[1])]

\* <FragmentHeader as HeaderReader>::read of fragment.rs
fragment_rs_read(b) ==
    LET std == StandardHeader_read(b)
    IN  IF std.err # Ok \/ Len(std.rest) < 4 THEN [err |-> "UnexpectedEof", header |-> None]
        ELSE LET id == std.rest[3]
                 acked == AckedPacketHeader_read(SubSeq(std.rest, 5, Len(std.rest)))
             IN  IF id = 0 /\ acked.err # Ok THEN [err |-> acked.err, header |-> None]
                 ELSE [err |-> Ok,
                       header |-> Some([standard_header |-> std.header,
                                        sequence_num |-> read_u16(SubSeq(std.rest, 1, 2)),
                                        id |-> id,
                                        num_fragments |-> std.rest[4],
                                        packet_header |-> IF id = 0 THEN acked.header
                                                          ELSE None])]

\* Packet::new
Packet_new(address, payload, delivery_method) ==
    [address |-> address, payload |-> payload, delivery_method |-> delivery_method]

-----------------------------------------------------------------------------
(* ProcessedPacket *)

\* ProcessedPacket::new
ProcessedPacket_new(sequence_num, packet, reliability) ==
    [sequence_num |-> sequence_num, packet |-> packet, reliability |-> reliability]

\* total_fragments_needed: the payload length is cast to u16 first.
total_fragments_needed(payload_length, fragment_size) ==
    LET len16 == payload_length % U16
        remainder == IF len16 % fragment_size > 0 THEN 1 ELSE 0
    IN  (len16 \div fragment_size) + remainder

\* The reliability header's bytes, when there is one.
ReliabilityBytes(self) ==
    IF self.reliability = None THEN << >> ELSE ReliableHeader_write(self.reliability[1])

\* ProcessedPacket::serialize_unfragmented: the one datagram.
serialize_unfragmented(self) ==
    StandardHeader_write(StandardHeader_new(self.packet.delivery_method, "Packet", self.sequence_num))
        \o ReliabilityBytes(self) \o self.packet.payload

\* The slice bounds serialize_fragmented computes for one fragment, in u16
\* arithmetic.  A multiplication that leaves the u16 range panics in a build
\* with overflow checks and wraps in one without.
FragmentBounds(self, fragment_id, fragment_size, overflow_checks) ==
    LET payload_length == Len(self.packet.payload)
        start_full == fragment_id * fragment_size
        end_full == (fragment_id + 1) * fragment_size
        overflow == start_full >= U16 \/ end_full >= U16
        start_pos == start_full % U16
        end_wrapped == end_full % U16
        end_pos == IF end_wrapped > payload_length THEN payload_length ELSE end_wrapped
    IN  [panic |-> (overflow_checks /\ overflow) \/ start_pos > end_pos \/ end_pos > payload_length,
         start_pos |-> start_pos, end_pos |-> end_pos]

\* Faulty variant of FragmentDatagram: the reliability header is written
\* before the fragment header.
FragmentDatagram_reliability_first(self, fragment_id, num_fragments, bounds) ==
    StandardHeader_write(StandardHeader_new(self.packet.delivery_method, "Fragment", self.sequence_num))
        \o ReliabilityBytes(self)
        \o FragmentHeader_write(FragmentHeader_new(fragment_id, num_fragments))
        \o SubSeq(self.packet.payload, bounds.start_pos + 1, bounds.end_pos)

\* One datagram of serialize_fragmented.
FragmentDatagram(self, fragment_id, num_fragments, bounds) ==
    StandardHeader_write(StandardHeader_new(self.packet.delivery_method, "Fragment", self.sequence_num))
        \o FragmentHeader_write(FragmentHeader_new(fragment_id, num_fragments))
        \o ReliabilityBytes(self)
        \o SubSeq(self.packet.payload, bounds.start_pos + 1, bounds.end_pos)

\* ProcessedPacket::serialize_fragmented: the datagrams in fragment order, or
\* a panic when a slice cannot be taken.
serialize_fragmented(self, num_fragments, fragment_size, overflow_checks) ==
    LET bounds == [id \in 0..(num_fragments - 1) |->
                       FragmentBounds(self, id, fragment_size, overflow_checks)]
    IN  IF \E id \in 0..(num_fragments - 1) : bounds[id].panic
        THEN [status |-> "panic", fragments |-> <<>>]
        ELSE [status |-> "Ok",
              fragments |-> [i \in 1..num_fragments |->
                                FragmentDatagram(self, i - 1, num_fragments, bounds[i - 1])]]

\* ProcessedPacket::fragments: the fragment count is cast to u8 before it is
\* compared with max_fragments.
fragments(self, fragment_size, max_fragments, overflow_checks) ==
    LET payload_length == Len(self.packet.payload)
        num_fragments == total_fragments_needed(payload_length, fragment_size) % U8
    IN  IF num_fragments > max_fragments
        THEN [status |-> "ExceededMaxFragments", fragments |-> <<>>]
        ELSE IF num_fragments <= 1
             THEN [status |-> "Ok", fragments |-> <<serialize_unfragmented(self)>>]
             ELSE serialize_fragmented(self, num_fragments, fragment_size, overflow_checks)

-----------------------------------------------------------------------------
(* ProcessedPacket::fragments exercised on its own *)

\* Bounds of the small configurations and payloads.
MaxPayloadLen == 6

MaxFragmentSize == 3

MaxMaxFragments == 3

\* A payload of the given length whose bytes differ from place to place.
Payload(len) == [i \in 1..len |-> i % U8]

\* (payload length, fragment_size, max_fragments) beyond the small ranges:
\* the source's test, the default configuration, a fragment count of 256 and
\* above, and slices that end beyond the u16 range.
LargeFragCases ==
    { <<12, 5, 10>>, <<4000, 1450, 16>>, <<256, 1, 16>>, <<258, 1, 16>>,
      <<32769, 32768, 2>> }

FragCases ==
    ((0..MaxPayloadLen) \X (1..MaxFragmentSize) \X (1..MaxMaxFragments)) \cup LargeFragCases

\* The reliability header of the source's tests.
TestReliableHeader == ReliableHeader_new(1, BitsOfNat(5421))

FragAddress == "127.0.0.1:9000"

InitFragVars ==
    /\ frag_in \in
          { [processed |-> ProcessedPacket_new(seq,
                               Packet_new(FragAddress, Payload(c[1]),
                                          IF rel = None THEN "UnreliableUnordered"
                                                        ELSE "ReliableUnordered"),
                               rel),
             fragment_size |-> c[2], max_fragments |-> c[3], overflow_checks |-> oc]
            : c \in FragCases, seq \in {0, 7}, rel \in {None, Some(TestReliableHeader)},
              oc \in BOOLEAN }
    /\ frag_out = [status |-> NoCall, fragments |-> << >>]

\* The call processed.fragments(fragment_size, max_fragments).
FragmentsCall ==
    /\ frag_out.status = NoCall
    /\ frag_out' = fragments(frag_in.processed, frag_in.fragment_size,
                             frag_in.max_fragments, frag_in.overflow_checks)
    /\ UNCHANGED frag_in

-----------------------------------------------------------------------------
(* SocketConfig *)

\* SocketConfig::default()
SocketConfig_default ==
    [fragment_size_bytes |-> 1450, idle_connection_timeout |-> 5, max_fragments |-> 16,
     receive_buffer_size_bytes |-> 1500, socket_polling_timeout |-> Some(100)]

\* SocketConfig::max_packet_size_bytes
max_packet_size_bytes(cfg) == cfg.max_fragments + cfg.fragment_size_bytes

\* The maximum acceptable round trip time in milliseconds (rtt_max_value).
RttMaxValue == 250

-----------------------------------------------------------------------------
(* LocalAckRecord: sent reliable payloads awaiting acknowledgement,          *)
(* sequence number -> payload                                                *)

LocalAckRecord_default == << >>

\* LocalAckRecord::enqueue
LocalAckRecord_enqueue(self, sequence_num, payload) ==
    [s \in DOMAIN self \cup {sequence_num} |->
        IF s = sequence_num THEN payload ELSE self[s]]

\* The 33 sequence numbers [last_acked - 32, last_acked].
AckedWindow(last_acked) == {wrapping_sub(last_acked, k) : k \in 0..AckWindow}

\* The sequence numbers an incoming (last_acked, ack_field) acknowledges.
AckedSet(last_acked, ack_field) ==
    {last_acked} \cup {wrapping_sub(last_acked, n + 1) : n \in ack_field}

\* LocalAckRecord::ack: the record left, and the dropped (sequence, payload)
\* pairs handed to the caller in sequence order.  Held sequences the peer
\* acknowledges are discarded, held sequences of the peer's window that it
\* does not acknowledge are dropped, the others stay.
LocalAckRecord_ack(self, last_acked, ack_field) ==
    LET acked == DOMAIN self \cap AckedSet(last_acked, ack_field)
        dropped == (DOMAIN self \cap AckedWindow(last_acked)) \ acked
        kept == (DOMAIN self \ acked) \ dropped
        Sorted[S \in SUBSET dropped] ==
            IF S = {} THEN << >>
            ELSE LET m == CHOOSE x \in S : \A y \in S : x <= y
                 IN  <<[sequence_num |-> m, payload |-> self[m]]>> \o Sorted[S \ {m}]
    IN  [record |-> [s \in kept |-> self[s]], dropped |-> Sorted[dropped]]

-----------------------------------------------------------------------------
(* SequenceBuffer<CongestionData>: slot -> entry                            *)

\* The capacity VirtualConnection::new asks for: <u16>::max_value().
CongestionCapacity == 65535

SequenceBuffer_new == << >>

\* SequenceBuffer::insert
SequenceBuffer_insert(self, data, sequence_num) ==
    LET slot == sequence_num % CongestionCapacity
    IN  [i \in DOMAIN self \cup {slot} |-> IF i = slot THEN data ELSE self[i]]

\* SequenceBuffer::get_mut: the entry, when the slot holds this sequence number.
SequenceBuffer_get_mut(self, sequence_num) ==
    LET slot == sequence_num % CongestionCapacity
    IN  IF slot \in DOMAIN self /\ self[slot].sequence_num = sequence_num
        THEN Some(self[slot]) ELSE None

\* RttMeasurer::get_rtt, times ten: (rtt in milliseconds - rtt_max_value) * 0.1,
\* and 0 without an entry.
get_rtt(congestion_data, time) ==
    IF congestion_data = None THEN 0
    ELSE 1000 * (time - congestion_data[1].sending_time) - RttMaxValue

-----------------------------------------------------------------------------
(* VirtualConnection *)

\* Faulty variant of VirtualConnection::new: the sequence counter starts at 1.
VirtualConnection_new_from_one(remote_address, cfg, time) ==
    [last_packet_time |-> time,
     remote_address |-> remote_address,
     max_packet_size_bytes |-> max_packet_size_bytes(cfg),
     sequence_num |-> 1,
     local_acks |-> LocalAckRecord_default,
     external_acks |-> ExternalAcks_default,
     dropped_packets |-> << >>,
     congestion_data |-> SequenceBuffer_new,
     rtt |-> 0]

\* VirtualConnection::new
VirtualConnection_new(remote_address, cfg, time) ==
    [last_packet_time |-> time,
     remote_address |-> remote_address,
     max_packet_size_bytes |-> max_packet_size_bytes(cfg),
     sequence_num |-> 0,
     local_acks |-> LocalAckRecord_default,
     external_acks |-> ExternalAcks_default,
     dropped_packets |-> << >>,
     congestion_data |-> SequenceBuffer_new,
     rtt |-> 0]

\* Faulty variant of the ReliableUnordered arm: the local ack record is asked
\* about the datagram's own sequence number instead of the header's last_acked.
IncomingReliable_own_sequence(self, standard_header, reliable_header, time) ==
    LET acked == LocalAckRecord_ack(self.local_acks, standard_header.sequence_num,
                                    reliable_header.ack_field)
    IN  [self EXCEPT
            !.external_acks = ExternalAcks_ack(@, standard_header.sequence_num),
            !.rtt = get_rtt(SequenceBuffer_get_mut(self.congestion_data,
                                                   reliable_header.last_acked), time),
            !.local_acks = acked.record,
            !.dropped_packets = [i \in 1..Len(acked.dropped) |-> acked.dropped[i].payload]]

\* The ReliableUnordered arm of process_incoming, once the reliable header is read.
IncomingReliable(self, standard_header, reliable_header, time) ==
    LET acked == LocalAckRecord_ack(self.local_acks, reliable_header.last_acked,
                                    reliable_header.ack_field)
    IN  [self EXCEPT
            !.external_acks = ExternalAcks_ack(@, standard_header.sequence_num),
            !.rtt = get_rtt(SequenceBuffer_get_mut(self.congestion_data,
                                                   reliable_header.last_acked), time),
            !.local_acks = acked.record,
            !.dropped_packets = [i \in 1..Len(acked.dropped) |-> acked.dropped[i].payload]]

\* Faulty variant of process_incoming: a datagram that fails on decoding or
\* version leaves the last-packet time as it was.
process_incoming_timing_accepted(self, payload, time) ==
    LET seen == [self EXCEPT !.last_packet_time = time]
        std == StandardHeader_read(payload)
        Failed(e) == [conn |-> self, err |-> e, packet |-> None]
    IN  IF std.err # Ok THEN Failed(std.err)
        ELSE IF ~valid_version(std.header.protocol_version)
        THEN Failed("ProtocolVersionMismatch")
        ELSE IF std.header.delivery_method = "ReliableUnordered"
        THEN LET rel == ReliableHeader_read(std.rest)
             IN  IF rel.err # Ok THEN Failed(rel.err)
                 ELSE [conn |-> IncomingReliable(seen, std.header, rel.header, time),
                       err |-> Ok,
                       packet |-> Some(Packet_new(self.remote_address, rel.rest,
                                                  std.header.delivery_method))]
        ELSE [conn |-> seen, err |-> Ok,
              packet |-> Some(Packet_new(self.remote_address, std.rest,
                                         std.header.delivery_method))]

\* VirtualConnection::process_incoming: the connection afterwards and the
\* result, Err(err) or Ok(Some(packet)).
process_incoming(self, payload, time) ==
    LET seen == [self EXCEPT !.last_packet_time = time]
        std == StandardHeader_read(payload)
        Failed(e) == [conn |-> seen, err |-> e, packet |-> None]
    IN  IF std.err # Ok THEN Failed(std.err)
        ELSE IF ~valid_version(std.header.protocol_version)
        THEN Failed("ProtocolVersionMismatch")
        ELSE IF std.header.delivery_method = "ReliableUnordered"
        THEN LET rel == ReliableHeader_read(std.rest)
             IN  IF rel.err # Ok THEN Failed(rel.err)
                 ELSE [conn |-> IncomingReliable(seen, std.header, rel.header, time),
                       err |-> Ok,
                       packet |-> Some(Packet_new(self.remote_address, rel.rest,
                                                  std.header.delivery_method))]
        ELSE [conn |-> seen, err |-> Ok,
              packet |-> Some(Packet_new(self.remote_address, std.rest,
                                         std.header.delivery_method))]

\* Faulty variant of the size check: a payload of exactly the maximum is refused.
ExceededMaxPacketSize_inclusive(self, packet) ==
    Len(packet.payload) >= self.max_packet_size_bytes

\* The size check at the head of process_outgoing.
ExceededMaxPacketSize(self, packet) == Len(packet.payload) > self.max_packet_size_bytes

\* VirtualConnection::process_outgoing: the connection afterwards and the
\* result, Err(err) or Ok(processed).
process_outgoing(self, packet, time) ==
    IF ExceededMaxPacketSize(self, packet)
    THEN [conn |-> self, err |-> "ExceededMaxPacketSize", processed |-> None]
    ELSE LET reliable == packet.delivery_method = "ReliableUnordered"
             queued ==
                 IF reliable
                 THEN [self EXCEPT
                          !.congestion_data =
                              SequenceBuffer_insert(@, [sequence_num |-> self.sequence_num,
                                                        sending_time |-> time],
                                                    self.sequence_num),
                          !.local_acks =
                              LocalAckRecord_enqueue(@, self.sequence_num, packet.payload)]
                 ELSE self
             reliability_header ==
                 IF reliable
                 THEN Some(ReliableHeader_new(ExternalAcks_last_acked(self.external_acks),
                                              ExternalAcks_ack_field(self.external_acks)))
                 ELSE None
         IN  [conn |-> [queued EXCEPT !.sequence_num = wrapping_add(self.sequence_num, 1)],
              err |-> Ok,
              processed |-> Some(ProcessedPacket_new(self.sequence_num, packet,
                                                     reliability_header))]

\* Faulty variant of time_since_last_packet: the age of the present instant.
time_since_last_packet_of_now(self, time) == time - time

\* VirtualConnection::time_since_last_packet
time_since_last_packet(self, time) == time - self.last_packet_time

-----------------------------------------------------------------------------
(* ActiveConnections *)

\* ActiveConnections::new
ActiveConnections_new == << >>

\* Faulty variant of get_or_insert_connection: the address always gets a new
\* connection.
get_or_insert_connection_anew(self, address, cfg, time) ==
    [a \in DOMAIN self \cup {address} |->
        IF a = address THEN VirtualConnection_new(address, cfg, time) ELSE self[a]]

\* ActiveConnections::get_or_insert_connection: the registry afterwards.
get_or_insert_connection(self, address, cfg, time) ==
    IF address \in DOMAIN self THEN self
    ELSE [a \in DOMAIN self \cup {address} |->
             IF a = address THEN VirtualConnection_new(address, cfg, time) ELSE self[a]]

\* Faulty variant of remove_connection: the entry stays.
remove_connection_kept(self, address) == self

\* ActiveConnections::remove_connection: the registry afterwards.
remove_connection(self, address) == [a \in DOMAIN self \ {address} |-> self[a]]

\* The registry after remove_connection for each address in turn, as the
\* loop of handle_idle_clients calls it.
RECURSIVE remove_connections(_, _)
remove_connections(self, addresses) ==
    IF Len(addresses) = 0 THEN self
    ELSE remove_connections(remove_connection(self, addresses[1]),
                            [i \in 1..(Len(addresses) - 1) |-> addresses[i + 1]])

\* Faulty variant of idle_connections: a connection idle for exactly the
\* timeout is not yet collected.
idle_connections_strict(self, max_idle_time, time) ==
    {a \in DOMAIN self : time_since_last_packet(self[a], time) > max_idle_time}

\* ActiveConnections::idle_connections
idle_connections(self, max_idle_time, time) ==
    {a \in DOMAIN self : time_since_last_packet(self[a], time) >= max_idle_time}

\* The registry with one connection replaced.
WithConnection(self, address, conn) == [self EXCEPT ![address] = conn]

-----------------------------------------------------------------------------
(* The environment of the socket *)

\* Bounds of one run: packets submitted and datagrams arriving, together, and
\* seconds passing.
MaxInputs == 2

MaxTime == 1

\* The remote endpoints: one busy peer and one quiet peer.
Addrs == {"peer1", "peer2"}

BusyPeer == "peer1"

\* A small configuration: fragment size and fragment limit.
SmallConfig(fragment_size, max_frags) ==
    [fragment_size_bytes |-> fragment_size, idle_connection_timeout |-> 1,
     max_fragments |-> max_frags, receive_buffer_size_bytes |-> 1500,
     socket_polling_timeout |-> Some(100)]

\* The configurations a socket is bound with.
Configs == {SmallConfig(1, 2), SocketConfig_default}

\* The delivery methods callers use (Packet::unreliable, Packet::reliable_unordered).
SubmitMethods == {"UnreliableUnordered", "ReliableUnordered"}

\* Payload lengths callers submit under a configuration: one byte, the
\* maximum packet size and one byte more, and the 4,000 bytes of the default
\* configuration's scenario.
SubmitLens(cfg) ==
    {1, max_packet_size_bytes(cfg), max_packet_size_bytes(cfg) + 1}
        \cup (IF cfg = SocketConfig_default THEN {4000} ELSE {})

\* The packets callers submit: reliable ones of every length to the busy peer,
\* a one-byte unreliable one to each peer.
Submissions(cfg) ==
    {Packet_new(BusyPeer, Payload(len), "ReliableUnordered") : len \in SubmitLens(cfg)}
        \cup {Packet_new(address, Payload(1), "UnreliableUnordered") : address \in Addrs}

\* A datagram as a peer's transport would put it on the wire.
WireDatagram(crc, delivery_method, sequence_num, reliability, payload) ==
    StandardHeader_write([protocol_version |-> crc, packet_type |-> "Packet",
                          delivery_method |-> delivery_method,
                          sequence_num |-> sequence_num])
        \o (IF reliability = None THEN << >> ELSE ReliableHeader_write(reliability[1]))
        \o payload

\* A CRC32 that differs from the local one in the given bit.
FlipBit(crc, bit) == IF bit \in crc THEN crc \ {bit} ELSE crc \cup {bit}

\* Well-formed datagrams: unreliable and reliable, sequence number 7 included.
GoodDatagrams ==
    { WireDatagram(VERSION_CRC32, "UnreliableUnordered", 7, None, <<9>>),
      WireDatagram(VERSION_CRC32, "ReliableUnordered", 7, Some(ReliableHeader_new(0, {})), <<9, 8>>),
      WireDatagram(VERSION_CRC32, "ReliableUnordered", 0, Some(ReliableHeader_new(40, {})), <<5>>) }

\* Datagrams of another protocol version: one bit of the CRC32 flipped.
BadVersionDatagrams ==
    { WireDatagram(FlipBit(VERSION_CRC32, 0), "UnreliableUnordered", 7, None, <<9>>),
      WireDatagram(FlipBit(VERSION_CRC32, 31), "ReliableUnordered", 7,
                   Some(ReliableHeader_new(0, {})), <<9, 8>>) }

\* Datagrams cut short: empty, inside the standard header (with the local and
\* with another CRC32), and inside the reliable header.
ShortDatagrams ==
    { << >>,
      SubSeq(WireDatagram(VERSION_CRC32, "UnreliableUnordered", 7, None, <<9>>), 1, 3),
      SubSeq(WireDatagram(FlipBit(VERSION_CRC32, 0), "UnreliableUnordered", 7, None, <<9>>), 1, 5),
      SubSeq(WireDatagram(VERSION_CRC32, "ReliableUnordered", 7, Some(ReliableHeader_new(0, {})), <<9, 8>>),
             1, 10) }

\* The datagrams peers send.
InDatagrams == GoodDatagrams \cup BadVersionDatagrams \cup ShortDatagrams

\* What reaches the socket: every datagram from the busy peer, an unreliable
\* one from the quiet peer.
Arrivals ==
    {[address |-> BusyPeer, data |-> data] : data \in InDatagrams}
        \cup {[address |-> address,
               data |-> WireDatagram(VERSION_CRC32, "UnreliableUnordered", 7, None, <<9>>)]
              : address \in Addrs \ {BusyPeer}}

\* Time passes while the loop waits in poll with nothing to read or send.
Tick ==
    /\ pc = "poll"
    /\ socket_in = << >>
    /\ packet_channel = << >>
    /\ now < MaxTime
    /\ now' = now + 1
    /\ UNCHANGED <<config, connections, socket_in, socket_out, packet_channel,
                   event_channel, pc, last_send, last_recv, submitted, arrived, unitVars>>

\* A caller submits a packet on the packet channel while the loop waits in poll.
Submit ==
    /\ pc = "poll"
    /\ submitted + arrived < MaxInputs
    /\ \E packet \in Submissions(config) : packet_channel' = Append(packet_channel, packet)
    /\ submitted' = submitted + 1
    /\ UNCHANGED <<config, connections, now, socket_in, socket_out, event_channel, pc,
                   last_send, last_recv, arrived, unitVars>>

\* A datagram from a peer reaches the socket while the loop waits in poll.
Arrive ==
    /\ pc = "poll"
    /\ submitted + arrived < MaxInputs
    /\ \E datagram \in Arrivals : socket_in' = Append(socket_in, datagram)
    /\ arrived' = arrived + 1
    /\ UNCHANGED <<config, connections, now, socket_out, packet_channel, event_channel, pc,
                   last_send, last_recv, submitted, unitVars>>

-----------------------------------------------------------------------------
(* LaminarSocket: the loop of start_polling *)

\* The orders in which a set of addresses can be iterated.
Orders(S) ==
    {f \in [1..Cardinality(S) -> S] : \A i, j \in 1..Cardinality(S) : f[i] = f[j] => i = j}

\* SocketEvent::Packet
PacketEvent(packet) == [type |-> "Packet", packet |-> packet]

\* SocketEvent::TimeOut
TimeOutEvent(address) == [type |-> "TimeOut", address |-> address]

\* Faulty variant of Sender_send: the event overtakes the ones still queued.
Sender_send_ahead(channel, event) == <<event>> \o channel

\* event_sender.send: the event joins the channel behind the earlier ones.
Sender_send(channel, event) == Append(channel, event)

\* LaminarSocket::handle_idle_clients
handle_idle_clients ==
    /\ pc = "idle"
    /\ LET idle_addresses == idle_connections(connections, config.idle_connection_timeout, now)
       IN  \E order \in Orders(idle_addresses) :
              /\ connections' = remove_connections(connections, order)
              /\ event_channel' = event_channel \o
                     [i \in 1..Cardinality(idle_addresses) |-> TimeOutEvent(order[i])]
    /\ pc' = "poll"
    /\ UNCHANGED <<config, now, socket_in, socket_out, packet_channel, last_send, last_recv,
                   submitted, arrived, unitVars>>

\* poll.poll returns (on readiness, or when socket_polling_timeout is over);
\* process_events then drains the socket if it is readable.
poll ==
    /\ pc = "poll"
    /\ socket_in # << >> \/ config.socket_polling_timeout # None
    /\ pc' = IF socket_in # << >> THEN "events" ELSE "packets"
    /\ UNCHANGED <<config, connections, now, socket_in, socket_out, packet_channel,
                   event_channel, last_send, last_recv, submitted, arrived, unitVars>>

\* Faulty variant of ReceivedDataTooShort: a datagram shorter than the
\* standard header is refused as well.
ReceivedDataTooShort_below_header(recv_len) == recv_len < HEADER_SIZE

\* The length check of receive_from, made before the registry is consulted.
ReceivedDataTooShort(recv_len) == recv_len <= 0

\* One turn of the drain loop of process_events: LaminarSocket::receive_from
\* and the publication of its result.
receive_from ==
    /\ pc = "events"
    /\ socket_in # << >>
    /\ LET address == Head(socket_in).address
           recv_len == Min(Len(Head(socket_in).data), config.receive_buffer_size_bytes)
           received_payload == SubSeq(Head(socket_in).data, 1, recv_len)
           inserted == get_or_insert_connection(connections, address, config, now)
       IN  IF ReceivedDataTooShort(recv_len)
           THEN /\ last_recv' = [address |-> Some(address), data |-> received_payload,
                                 err |-> "ReceivedDataTooShort", packet |-> None]
                /\ UNCHANGED <<connections, event_channel>>
           ELSE \E result \in {process_incoming(inserted[address], received_payload, now)} :
                  /\ connections' = WithConnection(inserted, address, result.conn)
                  /\ event_channel' = IF result.err = Ok
                                      THEN Sender_send(event_channel, PacketEvent(result.packet[1]))
                                      ELSE event_channel
                  /\ last_recv' = [address |-> Some(address), data |-> received_payload,
                                   err |-> result.err, packet |-> result.packet]
    /\ socket_in' = Tail(socket_in)
    /\ UNCHANGED <<config, now, socket_out, packet_channel, pc, last_send, submitted, arrived, unitVars>>

\* recv_from reports WouldBlock: the drain loop of process_events ends.
would_block ==
    /\ pc = "events"
    /\ socket_in = << >>
    /\ pc' = "packets"
    /\ UNCHANGED <<config, connections, now, socket_in, socket_out, packet_channel,
                   event_channel, last_send, last_recv, submitted, arrived, unitVars>>

\* Faulty variant of SentBy: the fragments of the new packet go first.
SentBy_fragments_first(address, dropped, frags) ==
    [i \in 1..Len(frags) |-> [address |-> address, data |-> frags[i]]] \o
    [i \in 1..Len(dropped) |-> [address |-> address, data |-> dropped[i]]]

\* The datagrams one send_to call hands to the socket: the drained dropped
\* payloads as they are, then the fragments.
SentBy(address, dropped, frags) ==
    [i \in 1..Len(dropped) |-> [address |-> address, data |-> dropped[i]]] \o
    [i \in 1..Len(frags) |-> [address |-> address, data |-> frags[i]]]

\* Faulty variant of LoopAfter: an error returned by send_to ends the loop.
LoopAfter_propagating(status, at) == IF status # Ok THEN "panicked" ELSE at

\* Where the loop goes on after a send_to call: its error is logged and the
\* iteration over the packet channel continues; only a panic unwinds the loop.
LoopAfter(status, at) == IF status = "panic" THEN "panicked" ELSE at

\* Faulty variant of try_iter_next: the newest submission is taken first.
try_iter_newest(channel) ==
    [packet |-> channel[Len(channel)], rest |-> SubSeq(channel, 1, Len(channel) - 1)]

\* packet_receiver.try_iter().next() on a channel that is not empty: the
\* oldest submission, and what stays in the channel.
try_iter_next(channel) == [packet |-> Head(channel), rest |-> Tail(channel)]

\* One turn of `for packet in packet_receiver.try_iter()`: LaminarSocket::send_to.
\* The operating system accepts every datagram.
send_to ==
    /\ pc = "packets"
    /\ packet_channel # << >>
    /\ LET packet == try_iter_next(packet_channel).packet
           address == packet.address
           inserted == get_or_insert_connection(connections, address, config, now)
           out == process_outgoing(inserted[address], packet, now)
       IN  IF out.err # Ok
           THEN /\ connections' = inserted
                /\ last_send' = [packet |-> Some(packet), status |-> out.err, processed |-> None,
                                 datagrams |-> << >>, fragments |-> << >>]
                /\ socket_out' = socket_out
                /\ pc' = LoopAfter(out.err, pc)
           ELSE \E overflow_checks \in BOOLEAN :
                  LET dropped == out.conn.dropped_packets
                      frags == fragments(out.processed[1], config.fragment_size_bytes,
                                         config.max_fragments, overflow_checks)
                      sent == SentBy(address, dropped, frags.fragments)
                  IN  /\ connections' = WithConnection(inserted, address,
                                            [out.conn EXCEPT !.dropped_packets = << >>])
                      /\ socket_out' = socket_out \o sent
                      /\ last_send' = [packet |-> Some(packet), status |-> frags.status,
                                       processed |-> out.processed, datagrams |-> sent,
                                       fragments |-> frags.fragments]
                      /\ pc' = LoopAfter(frags.status, pc)
    /\ packet_channel' = try_iter_next(packet_channel).rest
    /\ UNCHANGED <<config, now, socket_in, event_channel, last_recv, submitted, arrived, unitVars>>

\* try_iter finds the packet channel empty: the loop starts over.
channel_empty ==
    /\ pc = "packets"
    /\ packet_channel = << >>
    /\ pc' = "idle"
    /\ UNCHANGED <<config, connections, now, socket_in, socket_out, packet_channel,
                   event_channel, last_send, last_recv, submitted, arrived, unitVars>>

\* A connection that has sent 65,535 unreliable packets and nothing else.
SeasonedConnection(address, cfg) ==
    [VirtualConnection_new(address, cfg, 0) EXCEPT !.sequence_num = U16 - 1]

\* Before the first send_to call.
NoSend ==
    [packet |-> None, status |-> NoCall, processed |-> None, datagrams |-> << >>,
     fragments |-> << >>]

\* Before the first receive_from call.
NoReceive == [address |-> None, data |-> << >>, err |-> NoCall, packet |-> None]

\* LaminarSocket::new, and the socket again later in its life, with one
\* connection about to wrap its sequence number.
InitSysVars ==
    /\ \/ /\ config \in Configs
          /\ connections = ActiveConnections_new
       \/ /\ config = SmallConfig(2, 3)
          /\ connections = [a \in {BusyPeer} |-> SeasonedConnection(a, config)]
    /\ now = 0
    /\ socket_in = << >>
    /\ socket_out = << >>
    /\ packet_channel = << >>
    /\ event_channel = << >>
    /\ pc = "idle"
    /\ last_send = NoSend
    /\ last_recv = NoReceive
    /\ submitted = 0
    /\ arrived = 0

-----------------------------------------------------------------------------
(* Specifications *)

\* The parts of the state a specification does not exercise stay as they are.
IdleSysVars ==
    /\ config = SocketConfig_default
    /\ connections = ActiveConnections_new
    /\ now = 0
    /\ socket_in = << >>
    /\ socket_out = << >>
    /\ packet_channel = << >>
    /\ event_channel = << >>
    /\ pc = "idle"
    /\ last_send = NoSend
    /\ last_recv = NoReceive
    /\ submitted = 0
    /\ arrived = 0

IdleFragVars == frag_in = None /\ frag_out = [status |-> NoCall, fragments |-> << >>]

\* No history yet, and a peer that has done nothing.
IdleHistVars ==
    /\ wire_log = << >>
    /\ peer_connections = << >>
    /\ peer_events = << >>
    /\ carried = 0
    /\ drops = 0
    /\ codec_in = None
    /\ codec_bytes = [err |-> NoCall, bytes |-> << >>]
    /\ codec_out = [err |-> NoCall, header |-> None]

\* The transport: the loop of one socket, its callers and its peers.
Init == InitSysVars /\ InitAcksVars /\ IdleFragVars /\ IdleHistVars

Next ==
    \/ handle_idle_clients
    \/ poll
    \/ receive_from
    \/ would_block
    \/ send_to
    \/ channel_empty
    \/ Tick
    \/ Submit
    \/ Arrive

Spec == Init /\ [][Next]_vars

\* An ExternalAcks record on its own, from ExternalAcks::default().
InitAcks == IdleSysVars /\ InitAcksVars /\ IdleFragVars /\ IdleHistVars

NextAcks == AckCall /\ UNCHANGED sysVars /\ UNCHANGED fragVars /\ UNCHANGED histVars

SpecAcks == InitAcks /\ [][NextAcks]_vars

-----------------------------------------------------------------------------
(* Runs of consecutive sequence numbers on a fresh record, as the tests
   acking_a_full_set_of_packets and acking_around_zero make them *)

\* Number of calls in a run.
RunLength == 33

\* First numbers of the runs: those whose run reaches or crosses 65535 -> 0.
RunStarts == {U16 - k : k \in 1..(RunLength - 1)}

\* The first call of a run.
AckFirst ==
    /\ acks_arg = None
    /\ \E s \in RunStarts :
          /\ acks' = ExternalAcks_ack(acks, s)
          /\ acks_prev' = acks
          /\ acks_arg' = Some(s)
          /\ acks_received' = {s}
    /\ UNCHANGED <<sysVars, fragVars, histVars>>

\* The next call of the run: the successor of the number acknowledged last.
AckFollowing ==
    /\ acks_arg # None
    /\ Cardinality(acks_received) < RunLength
    /\ acks' = ExternalAcks_ack(acks, wrapping_add(acks_arg[1], 1))
    /\ acks_prev' = acks
    /\ acks_arg' = Some(wrapping_add(acks_arg[1], 1))
    /\ acks_received' = acks_received \cup {wrapping_add(acks_arg[1], 1)}
    /\ UNCHANGED <<sysVars, fragVars, histVars>>

NextRuns ==
    \/ AckFirst
    \/ AckFollowing

SpecRuns == InitAcks /\ [][NextRuns]_vars

\* One call of ProcessedPacket::fragments.
InitFragments == IdleSysVars /\ InitAcksVars /\ InitFragVars /\ IdleHistVars

NextFragments == FragmentsCall /\ UNCHANGED sysVars /\ UNCHANGED acksVars /\ UNCHANGED histVars

SpecFragments == InitFragments /\ [][NextFragments]_vars

-----------------------------------------------------------------------------
(* The header codecs exercised on their own: one header is written, and the *)
(* bytes are read back                                                       *)

PacketTypes == {"Packet", "Fragment", "HeartBeat", "Disconnect", "Unknown"}

\* u16 values at the edges of each byte.
CodecU16s == {0, 1, 255, 256, 65535}

\* u32 bit fields: empty, full, and single bits of the lowest and highest byte.
CodecAckFields == {{}, {0}, {31}, {0, 8, 16, 24}, 0..31}

\* Fragment ids and fragment counts.
CodecU8s == {0, 1, 255}

CodecStandardHeaders ==
    {StandardHeader_new(DeliveryMethods[m], t, s) : m \in 1..5, t \in PacketTypes, s \in CodecU16s}

\* The standard headers embedded in the acked and fragment headers.
EmbeddedStandardHeaders ==
    {StandardHeader_new("ReliableUnordered", "Fragment", 258),
     StandardHeader_new("UnreliableUnordered", "Unknown", 65535)}

CodecReliableHeaders ==
    {reliable_rs_new(s, l, f) : s \in {0, 258}, l \in CodecU16s, f \in CodecAckFields}

CodecFragmentHeaders ==
    {fragment_rs_new(std, id, n, AckedPacketHeader_new(std, s, 513, f)) :
        std \in EmbeddedStandardHeaders, id \in CodecU8s, n \in CodecU8s,
        s \in {0, 65535}, f \in {{}, {0, 31}}}
        \cup {fragment_rs_default}

CodecInputs ==
    {[kind |-> "standard", header |-> h] : h \in CodecStandardHeaders}
        \cup {[kind |-> "reliable", header |-> h] : h \in CodecReliableHeaders}
        \cup {[kind |-> "fragment", header |-> h] : h \in CodecFragmentHeaders}

\* HeaderWriter::write of the header's kind.
header_write(kind, h) ==
    CASE kind = "standard" -> [err |-> Ok, bytes |-> StandardHeader_write(h)]
      [] kind = "reliable" -> reliable_rs_write(h)
      [] kind = "fragment" -> fragment_rs_write(h)

\* HeaderReader::read of the header's kind.
header_read(kind, b) ==
    CASE kind = "standard" ->
             LET std == StandardHeader_read(b)
             IN  IF std.err = Ok THEN [err |-> Ok, header |-> Some(std.header)]
                 ELSE [err |-> std.err, header |-> None]
      [] kind = "reliable" -> reliable_rs_read(b)
      [] kind = "fragment" -> fragment_rs_read(b)

InitHeaders ==
    /\ IdleSysVars /\ InitAcksVars /\ IdleFragVars
    /\ wire_log = << >>
    /\ peer_connections = << >>
    /\ peer_events = << >>
    /\ carried = 0
    /\ drops = 0
    /\ codec_in \in CodecInputs
    /\ codec_bytes = [err |-> NoCall, bytes |-> << >>]
    /\ codec_out = [err |-> NoCall, header |-> None]

\* header.write(&mut buffer)
HeaderWrite ==
    /\ codec_bytes.err = NoCall
    /\ codec_bytes' = header_write(codec_in.kind, codec_in.header)
    /\ UNCHANGED <<codec_in, codec_out>>
    /\ UNCHANGED sysVars /\ UNCHANGED acksVars /\ UNCHANGED fragVars /\ UNCHANGED linkVars
    /\ UNCHANGED wire_log

\* Header::read(&mut Cursor::new(buffer)) on the bytes written
HeaderRead ==
    /\ codec_bytes.err = Ok
    /\ codec_out.err = NoCall
    /\ codec_out' = header_read(codec_in.kind, codec_bytes.bytes)
    /\ UNCHANGED <<codec_in, codec_bytes>>
    /\ UNCHANGED sysVars /\ UNCHANGED acksVars /\ UNCHANGED fragVars /\ UNCHANGED linkVars
    /\ UNCHANGED wire_log

NextHeaders ==
    \/ HeaderWrite
    \/ HeaderRead

SpecHeaders == InitHeaders /\ [][NextHeaders]_vars

-----------------------------------------------------------------------------
(* The receive path: a socket whose peers send every kind of datagram *)

\* Datagrams that reach the socket in one run of the receive path.
MaxArrivals == 3

\* The datagrams a peer's transport makes of one packet of the given payload
\* length under a configuration (ProcessedPacket::fragments on its side).
PeerDatagrams(sequence_num, delivery_method, reliability, len, cfg) ==
    fragments(ProcessedPacket_new(sequence_num,
                                  Packet_new(FragAddress, Payload(len), delivery_method),
                                  reliability),
              cfg.fragment_size_bytes, cfg.max_fragments, FALSE).fragments

\* The delivery methods the wire format reserves.
ReservedMethods == {"UnreliableSequenced", "ReliableOrdered"}

\* What the busy peer sends: the three fragments of an unreliable five-byte
\* packet and the two of a reliable three-byte one, datagrams of the reserved
\* delivery methods, reliable datagrams and a datagram cut short.
ProtocolDatagrams ==
    LET unreliable == PeerDatagrams(3, "UnreliableUnordered", None, 5, SmallConfig(2, 3))
        reliable == PeerDatagrams(4, "ReliableUnordered", Some(ReliableHeader_new(0, {})), 3,
                                  SmallConfig(2, 3))
    IN  {unreliable[i] : i \in 1..Len(unreliable)}
            \cup {reliable[i] : i \in 1..Len(reliable)}
            \cup {WireDatagram(VERSION_CRC32, m, 7, None, <<9>>) : m \in ReservedMethods}
            \cup {WireDatagram(VERSION_CRC32, "ReliableUnordered", 7,
                               Some(ReliableHeader_new(0, {})), <<9, 8>>),
                  WireDatagram(VERSION_CRC32, "ReliableUnordered", 8,
                               Some(ReliableHeader_new(0, {})), <<6>>),
                  SubSeq(WireDatagram(VERSION_CRC32, "UnreliableUnordered", 7, None, <<9>>), 1, 3)}

\* What reaches the socket: every such datagram from the busy peer, unreliable
\* ones from the quiet peer.
ProtocolArrivals ==
    {[address |-> BusyPeer, data |-> data] : data \in ProtocolDatagrams}
        \cup {[address |-> address,
               data |-> WireDatagram(VERSION_CRC32, "UnreliableUnordered", 7, None, <<9>>)]
              : address \in Addrs \ {BusyPeer}}

\* A datagram reaches the socket while the loop waits in poll; the history
\* records it.
ArriveLogged ==
    /\ pc = "poll"
    /\ arrived < MaxArrivals
    /\ \E datagram \in ProtocolArrivals :
          /\ socket_in' = Append(socket_in, datagram)
          /\ wire_log' = Append(wire_log, datagram)
    /\ arrived' = arrived + 1
    /\ UNCHANGED <<config, connections, now, socket_out, packet_channel, event_channel, pc,
                   last_send, last_recv, submitted, acksVars, fragVars, linkVars,
                   codecVars>>

\* LaminarSocket::new with a small configuration; no caller submits.
InitReceive ==
    /\ config = SmallConfig(2, 3)
    /\ connections = ActiveConnections_new
    /\ now = 0
    /\ socket_in = << >>
    /\ socket_out = << >>
    /\ packet_channel = << >>
    /\ event_channel = << >>
    /\ pc = "idle"
    /\ last_send = NoSend
    /\ last_recv = NoReceive
    /\ submitted = 0
    /\ arrived = 0
    /\ InitAcksVars /\ IdleFragVars /\ IdleHistVars

NextReceive ==
    \/ handle_idle_clients
    \/ poll
    \/ receive_from
    \/ would_block
    \/ channel_empty
    \/ ArriveLogged

SpecReceive == InitReceive /\ [][NextReceive]_vars

-----------------------------------------------------------------------------
(* Drop detection: reliable sends on one connection and the peer's acks *)

\* Submissions and arrivals, together, in one run of drop detection.
MaxAckInputs == 3

\* The (last_acked, ack_field) pairs the peer's reliable headers carry.
AckPairs == {0, 1, 2, 34} \X {{}, {0}, {1}}

\* A caller submits a reliable packet to the busy peer; its payload tells the
\* submissions apart.
SubmitReliable ==
    /\ pc = "poll"
    /\ submitted + arrived < MaxAckInputs
    /\ packet_channel' = Append(packet_channel,
                                Packet_new(BusyPeer, <<10 + submitted>>, "ReliableUnordered"))
    /\ submitted' = submitted + 1
    /\ UNCHANGED <<config, connections, now, socket_in, socket_out, event_channel, pc,
                   last_send, last_recv, arrived, unitVars>>

\* A reliable datagram of the busy peer, acknowledging, reaches the socket.
ArriveAck ==
    /\ pc = "poll"
    /\ submitted + arrived < MaxAckInputs
    /\ \E ack \in AckPairs :
          socket_in' = Append(socket_in,
              [address |-> BusyPeer,
               data |-> WireDatagram(VERSION_CRC32, "ReliableUnordered", arrived,
                                     Some(ReliableHeader_new(ack[1], ack[2])), <<9>>)])
    /\ arrived' = arrived + 1
    /\ UNCHANGED <<config, connections, now, socket_out, packet_channel, event_channel, pc,
                   last_send, last_recv, submitted, unitVars>>

\* A socket with no connection yet, or with one about to wrap its sequence
\* number.
InitDrops ==
    /\ config = SmallConfig(2, 3)
    /\ connections \in {ActiveConnections_new,
                        [a \in {BusyPeer} |-> SeasonedConnection(a, config)]}
    /\ now = 0
    /\ socket_in = << >>
    /\ socket_out = << >>
    /\ packet_channel = << >>
    /\ event_channel = << >>
    /\ pc = "idle"
    /\ last_send = NoSend
    /\ last_recv = NoReceive
    /\ submitted = 0
    /\ arrived = 0
    /\ InitAcksVars /\ IdleFragVars /\ IdleHistVars

NextDrops ==
    \/ handle_idle_clients
    \/ poll
    \/ receive_from
    \/ would_block
    \/ send_to
    \/ channel_empty
    \/ SubmitReliable
    \/ ArriveAck

SpecDrops == InitDrops /\ [][NextDrops]_vars

-----------------------------------------------------------------------------
(* Re-sending: reliable packets of several sizes on one connection and the
   peer's acknowledgements *)

\* Submissions and arrivals, together, in one run of re-sending.
MaxResendInputs == 3

\* Payload lengths under SmallConfig(2, 3): one datagram, two fragments, and
\* one byte more than max_packet_size_bytes.
ResendLens == {1, 3, max_packet_size_bytes(SmallConfig(2, 3)) + 1}

\* A caller submits a reliable packet to the busy peer; its bytes tell the
\* submissions apart.
SubmitSized ==
    /\ pc = "poll"
    /\ submitted + arrived < MaxResendInputs
    /\ \E len \in ResendLens :
          packet_channel' = Append(packet_channel,
              Packet_new(BusyPeer, [i \in 1..len |-> 10 + submitted], "ReliableUnordered"))
    /\ submitted' = submitted + 1
    /\ UNCHANGED <<config, connections, now, socket_in, socket_out, event_channel, pc,
                   last_send, last_recv, arrived, unitVars>>

\* A reliable datagram of the busy peer reaches the socket; its header
\* acknowledges sequence 1 and nothing before it.
ArriveAckOfOne ==
    /\ pc = "poll"
    /\ submitted + arrived < MaxResendInputs
    /\ socket_in' = Append(socket_in,
           [address |-> BusyPeer,
            data |-> WireDatagram(VERSION_CRC32, "ReliableUnordered", arrived,
                                  Some(ReliableHeader_new(1, {})), <<9>>)])
    /\ arrived' = arrived + 1
    /\ UNCHANGED <<config, connections, now, socket_out, packet_channel, event_channel, pc,
                   last_send, last_recv, submitted, unitVars>>

NextResend ==
    \/ handle_idle_clients
    \/ poll
    \/ receive_from
    \/ would_block
    \/ send_to
    \/ channel_empty
    \/ SubmitSized
    \/ ArriveAckOfOne

SpecResend == InitReceive /\ [][NextResend]_vars

-----------------------------------------------------------------------------
(* One step of the socket's loop *)

LoopStep ==
    \/ handle_idle_clients
    \/ poll
    \/ receive_from
    \/ would_block
    \/ send_to
    \/ channel_empty

-----------------------------------------------------------------------------
(* Idle connections: the loop under fair scheduling, with peers and callers  *)
(* that fall silent while the clock goes on                                  *)

MaxIdleTime == 2

\* The clock can still pass the idle timeout of a connection touched now.
InTime == now + config.idle_connection_timeout <= MaxIdleTime

\* Time passes while the loop waits in poll with nothing to read or send.
TickIdle ==
    /\ pc = "poll"
    /\ socket_in = << >>
    /\ packet_channel = << >>
    /\ now < MaxIdleTime
    /\ now' = now + 1
    /\ UNCHANGED <<config, connections, socket_in, socket_out, packet_channel,
                   event_channel, pc, last_send, last_recv, submitted, arrived, unitVars>>

MaxIdleInputs == 2

\* A caller submits a one-byte unreliable packet for either peer.
SubmitInTime ==
    /\ pc = "poll"
    /\ InTime
    /\ submitted + arrived < MaxIdleInputs
    /\ \E address \in Addrs :
           packet_channel' = Append(packet_channel,
                                    Packet_new(address, Payload(1), "UnreliableUnordered"))
    /\ submitted' = submitted + 1
    /\ UNCHANGED <<config, connections, now, socket_in, socket_out, event_channel, pc,
                   last_send, last_recv, arrived, unitVars>>

\* A datagram of either peer reaches the socket.
ArriveInTime ==
    /\ pc = "poll"
    /\ InTime
    /\ submitted + arrived < MaxIdleInputs
    /\ \E address \in Addrs :
           socket_in' = Append(socket_in,
               [address |-> address,
                data |-> WireDatagram(VERSION_CRC32, "UnreliableUnordered", 7, None, <<9>>)])
    /\ arrived' = arrived + 1
    /\ UNCHANGED <<config, connections, now, socket_out, packet_channel, event_channel, pc,
                   last_send, last_recv, submitted, unitVars>>

InitIdle == InitReceive

NextIdle ==
    \/ handle_idle_clients
    \/ poll
    \/ receive_from
    \/ would_block
    \/ send_to
    \/ channel_empty
    \/ TickIdle
    \/ SubmitInTime
    \/ ArriveInTime

\* The loop thread is scheduled fairly, and time passes whenever the loop
\* waits in poll with nothing to read or send.
SpecIdle ==
    /\ InitIdle
    /\ [][NextIdle]_vars
    /\ WF_vars(LoopStep)
    /\ SF_vars(TickIdle)

-----------------------------------------------------------------------------
(* Eviction: the socket of the idle-timeout runs, also later in its life with
   the busy peer's connection about to wrap its sequence number *)

InitEvict ==
    /\ config = SmallConfig(2, 3)
    /\ connections \in {ActiveConnections_new,
                        [a \in {BusyPeer} |-> SeasonedConnection(a, config)]}
    /\ now = 0
    /\ socket_in = << >>
    /\ socket_out = << >>
    /\ packet_channel = << >>
    /\ event_channel = << >>
    /\ pc = "idle"
    /\ last_send = NoSend
    /\ last_recv = NoReceive
    /\ submitted = 0
    /\ arrived = 0
    /\ InitAcksVars /\ IdleFragVars /\ IdleHistVars

SpecEvict == InitEvict /\ [][NextIdle]_vars

-----------------------------------------------------------------------------
(* Producers: caller threads that share the packet sender                    *)

Producers == {1, 2}

MaxSubmissions == 3

\* A payload that names its producer and the instant of its submission.
Stamped(producer, stamp) == <<producer, stamp>>

\* A producer thread sends a packet on its clone of the packet sender, at any
\* point of the loop's iteration.
ProducerSubmit ==
    /\ pc # "panicked"
    /\ submitted < MaxSubmissions
    /\ \E producer \in Producers, address \in Addrs :
           packet_channel' =
               Append(packet_channel,
                      Packet_new(address, Stamped(producer, submitted),
                                 "UnreliableUnordered"))
    /\ submitted' = submitted + 1
    /\ UNCHANGED <<config, connections, now, socket_in, socket_out, event_channel, pc,
                   last_send, last_recv, arrived, unitVars>>

\* A freshly bound socket, or one whose connection to the busy peer is about
\* to wrap its sequence number.
InitProducers ==
    /\ config = SmallConfig(2, 3)
    /\ connections \in {ActiveConnections_new,
                         [a \in {BusyPeer} |-> SeasonedConnection(a, config)]}
    /\ now = 0
    /\ socket_in = << >>
    /\ socket_out = << >>
    /\ packet_channel = << >>
    /\ event_channel = << >>
    /\ pc = "idle"
    /\ last_send = NoSend
    /\ last_recv = NoReceive
    /\ submitted = 0
    /\ arrived = 0
    /\ InitAcksVars /\ IdleFragVars /\ IdleHistVars

NextProducers ==
    \/ handle_idle_clients
    \/ poll
    \/ send_to
    \/ channel_empty
    \/ TickIdle
    \/ ProducerSubmit

SpecProducers == InitProducers /\ [][NextProducers]_vars

-----------------------------------------------------------------------------
(* Failures: datagrams that do not decode, packets that cannot be processed, *)
(* and peers the operating system refuses to send to                         *)

MaxFailInputs == 4

\* The peers the operating system has no route to: send_to on the UDP socket
\* fails for them.
Unroutable == Addrs \ {BusyPeer}

\* The datagrams a peer sends as its n-th input: a well-formed one carrying
\* <<n>>, the same with another protocol version, and the same cut inside the
\* standard header.
StampedDatagrams(n) ==
    { WireDatagram(VERSION_CRC32, "UnreliableUnordered", n, None, <<n>>),
      WireDatagram(FlipBit(VERSION_CRC32, 0), "UnreliableUnordered", n, None, <<n>>),
      SubSeq(WireDatagram(VERSION_CRC32, "UnreliableUnordered", n, None, <<n>>), 1, 3) }

\* The packets a caller submits as the n-th input: <<n>> for either peer, and
\* one beyond the largest packet size for the busy peer.
StampedPackets(n, cfg) ==
    {Packet_new(address, <<n>>, "UnreliableUnordered") : address \in Addrs}
        \cup {Packet_new(BusyPeer,
                         <<n>> \o Payload(cfg.max_fragments * cfg.fragment_size_bytes),
                         "UnreliableUnordered")}

\* A datagram of the busy peer reaches the socket while the loop waits in poll.
ArriveStamped ==
    /\ pc = "poll"
    /\ submitted + arrived < MaxFailInputs
    /\ \E data \in StampedDatagrams(submitted + arrived) :
           /\ socket_in' = Append(socket_in, [address |-> BusyPeer, data |-> data])
           /\ wire_log' = Append(wire_log, [address |-> BusyPeer, data |-> data])
    /\ arrived' = arrived + 1
    /\ UNCHANGED <<config, connections, now, socket_out, packet_channel, event_channel, pc,
                   last_send, last_recv, submitted, acksVars, fragVars, linkVars,
                   codecVars>>

\* A caller submits a packet while the loop waits in poll.
SubmitStamped ==
    /\ pc = "poll"
    /\ submitted + arrived < MaxFailInputs
    /\ \E packet \in StampedPackets(submitted + arrived, config) :
           packet_channel' = Append(packet_channel, packet)
    /\ submitted' = submitted + 1
    /\ UNCHANGED <<config, connections, now, socket_in, socket_out, event_channel, pc,
                   last_send, last_recv, arrived, unitVars>>

\* LaminarSocket::send_to for a peer the operating system has a route to.
send_routed ==
    /\ packet_channel # << >>
    /\ Head(packet_channel).address \notin Unroutable
    /\ send_to

\* LaminarSocket::send_to for a peer without a route: the packet is processed,
\* the first send_to on the UDP socket fails and the error is returned.
send_refused ==
    /\ pc = "packets"
    /\ packet_channel # << >>
    /\ Head(packet_channel).address \in Unroutable
    /\ LET packet == try_iter_next(packet_channel).packet
           address == packet.address
           inserted == get_or_insert_connection(connections, address, config, now)
       IN  \E out \in {process_outgoing(inserted[address], packet, now)} :
             /\ connections' =
                    IF out.err # Ok THEN inserted
                    ELSE WithConnection(inserted, address,
                                        [out.conn EXCEPT !.dropped_packets = << >>])
             /\ last_send' = [packet |-> Some(packet),
                              status |-> IF out.err # Ok THEN out.err ELSE "Io",
                              processed |-> out.processed, datagrams |-> << >>,
                              fragments |-> << >>]
             /\ pc' = LoopAfter(IF out.err # Ok THEN out.err ELSE "Io", pc)
    /\ packet_channel' = try_iter_next(packet_channel).rest
    /\ UNCHANGED <<config, now, socket_in, socket_out, event_channel, last_recv, submitted,
                   arrived, unitVars>>

\* One step of the loop.
FailLoopStep ==
    \/ handle_idle_clients
    \/ poll
    \/ receive_from
    \/ would_block
    \/ send_routed
    \/ send_refused
    \/ channel_empty

InitFailures == InitReceive

NextFailures ==
    \/ handle_idle_clients
    \/ poll
    \/ receive_from
    \/ would_block
    \/ send_routed
    \/ send_refused
    \/ channel_empty
    \/ ArriveStamped
    \/ SubmitStamped

\* The loop thread is scheduled fairly.
SpecFailures == InitFailures /\ [][NextFailures]_vars /\ WF_vars(FailLoopStep)

-----------------------------------------------------------------------------
(* A link: the socket, a lossy network and the peer's socket, both sides     *)
(* sending reliable packets                                                  *)

\* The two sides exchange reliable packets in rounds: the socket's caller
\* submits a packet, the loop sends it, the network carries or loses it, then
\* the peer sends a packet of its own, which the loop receives.  The rounds of
\* one run, and the datagrams the network may lose on the way to the peer.
MaxLinkSends == 4

MaxDrops == 1

\* The socket's address as the peer sees it.
LocalAddress == "local"

\* The rounds that must follow a loss for the sender to hear of it (the peer's
\* next header but one shows the gap) and to send again.
RoundsToRecover == 2

\* A round begins: a caller of the socket submits a reliable packet for the
\* peer; its payload tells the submissions apart.
LinkSubmit ==
    /\ submitted < MaxLinkSends
    /\ submitted = arrived
    /\ socket_in = << >>
    /\ packet_channel' = Append(packet_channel,
                                Packet_new(BusyPeer, <<10 + submitted>>, "ReliableUnordered"))
    /\ submitted' = submitted + 1
    /\ UNCHANGED <<config, connections, now, socket_in, socket_out, event_channel, pc,
                   last_send, last_recv, arrived, unitVars>>

\* The network carries the oldest datagram in flight to the peer, whose loop
\* takes it: receive_from and the publication of its result on the peer's side.
peer_receive ==
    /\ carried < Len(socket_out)
    /\ LET data == socket_out[carried + 1].data
           inserted == get_or_insert_connection(peer_connections, LocalAddress, config, now)
       IN  IF Len(data) <= 0
           THEN UNCHANGED <<peer_connections, peer_events>>
           ELSE \E result \in {process_incoming(inserted[LocalAddress], data, now)} :
                  /\ peer_connections' = WithConnection(inserted, LocalAddress, result.conn)
                  /\ peer_events' = IF result.err = Ok
                                    THEN Append(peer_events, PacketEvent(result.packet[1]))
                                    ELSE peer_events
    /\ carried' = carried + 1
    /\ UNCHANGED <<sysVars, acksVars, fragVars, wire_log, drops, codecVars>>

\* The network loses the oldest datagram in flight, while enough rounds are
\* still to come.
network_drop ==
    /\ carried < Len(socket_out)
    /\ drops < MaxDrops
    /\ submitted + RoundsToRecover <= MaxLinkSends
    /\ carried' = carried + 1
    /\ drops' = drops + 1
    /\ UNCHANGED <<sysVars, acksVars, fragVars, wire_log, peer_connections, peer_events,
                   codecVars>>

\* The round goes on once the socket's packet is sent and the network has
\* dealt with it: a caller of the peer's socket submits a reliable packet for
\* the socket and the peer's loop sends it (send_to on the peer's side); the
\* network carries every datagram of it.
peer_send ==
    /\ arrived < submitted
    /\ packet_channel = << >>
    /\ carried = Len(socket_out)
    /\ LET packet == Packet_new(LocalAddress, <<100 + arrived>>, "ReliableUnordered")
           inserted == get_or_insert_connection(peer_connections, LocalAddress, config, now)
           out == process_outgoing(inserted[LocalAddress], packet, now)
           frags == fragments(out.processed[1], config.fragment_size_bytes,
                              config.max_fragments, FALSE)
           sent == SentBy(BusyPeer, out.conn.dropped_packets, frags.fragments)
       IN  /\ peer_connections' = WithConnection(inserted, LocalAddress,
                                       [out.conn EXCEPT !.dropped_packets = << >>])
           /\ socket_in' = socket_in \o sent
    /\ arrived' = arrived + 1
    /\ UNCHANGED <<config, connections, now, socket_out, packet_channel, event_channel, pc,
                   last_send, last_recv, submitted, acksVars, fragVars, wire_log,
                   peer_events, carried, drops, codecVars>>

\* Both sockets freshly bound with the same configuration.
InitLink == InitReceive

NextLink ==
    \/ handle_idle_clients
    \/ poll
    \/ receive_from
    \/ would_block
    \/ send_to
    \/ channel_empty
    \/ LinkSubmit
    \/ peer_receive
    \/ network_drop
    \/ peer_send

\* The loop runs fairly, the network carries what it does not lose, and the
\* callers on both sides keep the rounds going.
SpecLink ==
    /\ InitLink
    /\ [][NextLink]_vars
    /\ WF_vars(LoopStep)
    /\ WF_vars(peer_receive)
    /\ WF_vars(LinkSubmit)
    /\ WF_vars(peer_send)

-----------------------------------------------------------------------------
(* Properties of ExternalAcks (checked under SpecAcks) *)

\* C1: after any sequence of ack calls on a fresh record, for every n in
\* 0..31, bit n of ack_field is set if and only if the sequence number
\* (last_sequence_num - (n+1)) mod 2^16 was passed to some ack call.
AckFieldBitsAreReceived ==
    \A n \in 0..31 :
        (n \in acks.ack_field) <=>
            (wrapping_sub(acks.last_sequence_num, n + 1) \in acks_received)

\* C2: ack(s) sets last_sequence_num to s exactly when
\* 0 < (s - last_sequence_num) mod 2^16 < 2^15, and leaves it unchanged in
\* every other case.
NewerExactlyBelowHalfRange ==
    acks_arg # None =>
        LET s == acks_arg[1]
            pos == wrapping_sub(s, acks_prev.last_sequence_num)
        IN  IF 0 < pos /\ pos < U16 \div 2
            THEN acks.last_sequence_num = s
            ELSE acks.last_sequence_num = acks_prev.last_sequence_num

\* The newest of the sequence numbers under the circular-newer relation: the
\* one no more than half the range ahead of every other (a set, empty when
\* the numbers span half the range or more).
Newest(received) ==
    {m \in received : \A s \in received : wrapping_sub(m, s) < U16 \div 2}

\* C25: after any sequence of ack calls on a fresh record whose inputs lie
\* within a span of less than 2^15, last_sequence_num is the newest of the
\* inputs, wherever in the u16 space they lie.
LastIsNewestInput ==
    \A m \in Newest(acks_received) : acks.last_sequence_num = m

\* The last call was ack(s) on a record with last_sequence_num ahead of s by
\* neg.
BehindBy(neg) ==
    /\ acks_arg # None
    /\ wrapping_sub(acks_prev.last_sequence_num, acks_arg[1]) = neg

\* C26: ack(s) with s equal to last_sequence_num, or with s already recorded
\* as a set bit of the window, leaves the record unchanged.
AckOfRecordedIsIdempotent ==
    (BehindBy(0) \/ \E n \in acks_prev.ack_field : BehindBy(n + 1)) => acks = acks_prev

\* A number recorded as a bit of the window has been acknowledged again.
RecordedBitAckedAgain ==
    /\ \E n \in acks_prev.ack_field : BehindBy(n + 1)
    /\ acks.ack_field = {0, 1}
    /\ acks = acks_prev

\* C27: when ack(s) advances the record by pos = (s - last) mod 2^16,
\* last_sequence_num becomes s; for pos in 1..32 the new ack_field has bit
\* pos-1 set, every old bit n at n+pos when n+pos <= 31 and no other bit; for
\* pos > 32 the new ack_field is 0.
AdvanceShiftsWindow ==
    (acks_arg # None /\ acks.last_sequence_num # acks_prev.last_sequence_num) =>
        LET s == acks_arg[1]
            pos == wrapping_sub(s, acks_prev.last_sequence_num)
        IN  /\ acks.last_sequence_num = s
            /\ acks.ack_field =
                   IF pos <= 32
                   THEN {pos - 1} \cup {n + pos : n \in {m \in acks_prev.ack_field : m + pos <= 31}}
                   ELSE {}

\* ack(33) on the record of 0, 1, 2: the old last moves to bit 30, old bit 0
\* to bit 31 and old bit 1 out of the field.
AdvancedWithBitShiftedOut ==
    /\ acks_arg = Some(33)
    /\ acks_prev = [last_sequence_num |-> 2, ack_field |-> {0, 1}]
    /\ acks = [last_sequence_num |-> 33, ack_field |-> {30, 31}]

\* C28: ack(s) with s older than last_sequence_num by 33..2^15 changes
\* neither last_sequence_num nor ack_field.
TooOldIsIgnored ==
    acks_arg # None =>
        LET neg == wrapping_sub(acks_prev.last_sequence_num, acks_arg[1])
        IN  (33 <= neg /\ neg <= U16 \div 2) => acks = acks_prev

\* ack(1) on a record at 34 with a bit set: the number is 33 behind, one
\* past the window.
TooOldAckedAtWindowEdge ==
    /\ BehindBy(33)
    /\ acks_prev.last_sequence_num = 34
    /\ acks.ack_field # {}

\* Records a call sequence may have reached before its last two calls.
Predecessors ==
    {[last_sequence_num |-> l, ack_field |-> f] : l \in AckInputs, f \in SUBSET {0, 1, 30, 31}}

\* C29: ack(s) with s behind last_sequence_num by neg in 1..32 sets bit
\* neg-1 of ack_field and changes nothing else; the record is the one the
\* same two packets give in order: for every record r from which the last
\* two calls (the newer number first, then s) are s and the newer number out
\* of order, acknowledging s and then the newer number gives the same.
GapFillSetsOneBit ==
    \A neg \in 1..32 :
        BehindBy(neg) =>
            /\ acks.last_sequence_num = acks_prev.last_sequence_num
            /\ acks.ack_field = acks_prev.ack_field \cup {neg - 1}
            /\ \A r \in Predecessors :
                   (/\ ExternalAcks_ack(r, acks_prev.last_sequence_num) = acks_prev
                    /\ wrapping_sub(acks_arg[1], r.last_sequence_num) \in 1..(U16 \div 2 - 1))
                   => ExternalAcks_ack(ExternalAcks_ack(r, acks_arg[1]),
                                       acks_prev.last_sequence_num) = acks

\* 2 arrived before 1 on a record at 0: the gap is filled and the record is
\* that of 1 then 2.
GapFilledOutOfOrder ==
    /\ BehindBy(1)
    /\ acks_arg = Some(1)
    /\ acks_prev = [last_sequence_num |-> 2, ack_field |-> {1}]
    /\ acks = ExternalAcks_ack(ExternalAcks_ack(ExternalAcks_default, 1), 2)

\* C30: acknowledging the 33 consecutive numbers 65520, ..., 65535, 0, ...,
\* 16 in increasing circular order on a fresh record ends with
\* last_sequence_num = 16 and all 32 bits of ack_field set.
AroundZeroFillsWindow ==
    (/\ acks_arg = Some(16)
     /\ acks_received = (65520..65535) \cup (0..16))
    => acks = [last_sequence_num |-> 16, ack_field |-> 0..31]

\* The run from 65520 has made its 33 calls, the last of them ack(16).
AroundZeroRunDone ==
    /\ acks_arg = Some(16)
    /\ acks_received = (65520..65535) \cup (0..16)
    /\ acks_prev.last_sequence_num = 15
    /\ Cardinality(acks.ack_field) = 32

-----------------------------------------------------------------------------
(* Properties of the send path (checked under Spec) *)

\* A step of the loop that takes one packet from the packet channel (send_to).
SendStep == pc = "packets" /\ packet_channel # << >> /\ packet_channel' = Tail(packet_channel)

\* The connection a call on the address works on: the registered one, or
\* the one get_or_insert_connection creates.
ConnectionBefore(address) ==
    get_or_insert_connection(connections, address, config, now)[address]

\* C3: each successful process_outgoing stamps the packet with the
\* connection's current sequence number (also in the header of every datagram
\* made of it) and then increments that number by one modulo 2^16, for every
\* delivery method; 65535 is followed by 0.
SequenceNumberStampedThenIncremented ==
    [][ (SendStep /\ last_send'.processed # None) =>
            LET packet == Head(packet_channel)
                before == ConnectionBefore(packet.address)
                after == connections'[packet.address]
            IN  /\ last_send'.processed[1].sequence_num = before.sequence_num
                /\ \A i \in 1..Len(last_send'.fragments) :
                      read_u16(SubSeq(last_send'.fragments[i], 7, 8)) = before.sequence_num
                /\ after.sequence_num =
                      IF before.sequence_num = U16 - 1 THEN 0 ELSE before.sequence_num + 1
      ]_vars

\* C3 happens: a packet was stamped 65535 and the connection's next number is 0.
SequenceNumberWrapped ==
    /\ last_send.processed # None
    /\ last_send.processed[1].sequence_num = U16 - 1
    /\ BusyPeer \in DOMAIN connections
    /\ connections[BusyPeer].sequence_num = 0

\* C4: process_outgoing with a payload longer than max_packet_size_bytes
\* fails with ExceededMaxPacketSize, nothing is sent on the socket, and the
\* connection's sequence number, local ack record and congestion samples are
\* unchanged; a payload of exactly max_packet_size_bytes is accepted.
OversizePayloadRejected ==
    [][ SendStep =>
            LET packet == Head(packet_channel)
                before == ConnectionBefore(packet.address)
                after == connections'[packet.address]
                size == Len(packet.payload)
            IN  /\ size > before.max_packet_size_bytes =>
                      /\ last_send'.status = "ExceededMaxPacketSize"
                      /\ last_send'.processed = None
                      /\ socket_out' = socket_out
                      /\ after.sequence_num = before.sequence_num
                      /\ after.local_acks = before.local_acks
                      /\ after.congestion_data = before.congestion_data
                /\ size = before.max_packet_size_bytes =>
                      /\ last_send'.status # "ExceededMaxPacketSize"
                      /\ last_send'.processed # None
                      /\ last_send'.processed[1].packet = packet
      ]_vars

\* C4 happens: a payload was refused as too long on a connection that holds
\* unacknowledged reliable payloads and has sent datagrams.
OversizeRefusedAfterReliableSend ==
    /\ last_send.status = "ExceededMaxPacketSize"
    /\ last_send.packet # None
    /\ last_send.packet[1].address \in DOMAIN connections
    /\ DOMAIN connections[last_send.packet[1].address].local_acks # {}
    /\ socket_out # << >>

\* C5: the maximum packet size used by process_outgoing equals max_fragments
\* multiplied by fragment_size_bytes for every configuration (23,200 bytes for
\* the defaults 16 and 1450).
MaxPacketSizeIsProduct ==
    [][ SendStep =>
            LET packet == Head(packet_channel)
                before == ConnectionBefore(packet.address)
                product == config.max_fragments * config.fragment_size_bytes
            IN  /\ before.max_packet_size_bytes = product
                /\ (last_send'.status = "ExceededMaxPacketSize") <=>
                       (Len(packet.payload) > product)
      ]_vars

\* C6: with the default configuration, submitting one ReliableUnordered packet
\* with a 4,000-byte payload makes the loop send exactly 3 datagrams to the
\* peer, with fragment ids 0, 1, 2 in that order and num_fragments = 3 in each.
DefaultConfigSendsThreeFragments ==
    ( /\ config = SocketConfig_default
      /\ submitted = 1
      /\ last_send.packet = Some(Packet_new(BusyPeer, Payload(4000), "ReliableUnordered")) )
    =>  /\ Len(socket_out) = 3
        /\ \A i \in 1..3 :
              LET fragment_header ==
                      FragmentHeader_read(SubSeq(socket_out[i].data, HEADER_SIZE + 1,
                                                 Len(socket_out[i].data)))
              IN  /\ socket_out[i].address = BusyPeer
                  /\ fragment_header.err = Ok
                  /\ fragment_header.header.id = i - 1
                  /\ fragment_header.header.num_fragments = 3

-----------------------------------------------------------------------------
(* Properties of ProcessedPacket::fragments (checked under SpecFragments) *)

\* ceil(a / b)
CeilDiv(a, b) == (a + b - 1) \div b

\* The fragments the call on frag_in should give.
FragmentsNeeded == CeilDiv(Len(frag_in.processed.packet.payload), frag_in.fragment_size)

\* The payload bytes a produced datagram carries, after its headers.
CarriedPayload(datagram) ==
    LET fragment_header_size == IF Len(frag_out.fragments) > 1 THEN 2 ELSE 0
        reliable_header_size == IF frag_in.processed.reliability = None THEN 0 ELSE 6
    IN  SubSeq(datagram, HEADER_SIZE + fragment_header_size + reliable_header_size + 1,
               Len(datagram))

\* The carried payloads of the first n produced datagrams, joined in order.
RECURSIVE JoinedPayload(_)
JoinedPayload(n) ==
    IF n = 0 THEN << >> ELSE JoinedPayload(n - 1) \o CarriedPayload(frag_out.fragments[n])

\* C7: for any payload of length L and any fragment_size >= 1 with
\* ceil(L / fragment_size) <= max_fragments, fragments yields
\* ceil(L / fragment_size) fragments (one datagram when that is 0 or 1), each
\* carrying at most fragment_size payload bytes, and the fragment payloads
\* joined in id order give back the original payload.
FragmentsSplitThePayload ==
    (frag_out.status # NoCall /\ FragmentsNeeded <= frag_in.max_fragments) =>
        /\ frag_out.status = Ok
        /\ Len(frag_out.fragments) = (IF FragmentsNeeded <= 1 THEN 1 ELSE FragmentsNeeded)
        /\ \A i \in 1..Len(frag_out.fragments) :
              Len(CarriedPayload(frag_out.fragments[i])) <= frag_in.fragment_size
        /\ JoinedPayload(Len(frag_out.fragments)) = frag_in.processed.packet.payload

\* C8: fragments fails with ExceededMaxFragments whenever
\* ceil(payload_len / fragment_size) > max_fragments, for every payload length
\* and every fragment_size >= 1 (also when the fragment count is 256 or more),
\* and in that case no datagram is produced.
TooManyFragmentsRefused ==
    (frag_out.status # NoCall /\ FragmentsNeeded > frag_in.max_fragments) =>
        /\ frag_out.status = "ExceededMaxFragments"
        /\ frag_out.fragments = << >>

-----------------------------------------------------------------------------
(* Properties of the receive path (checked under Spec) *)

\* A step of the loop that takes one datagram from the socket (receive_from).
ReceiveStep == pc = "events" /\ socket_in # << >> /\ socket_in' = Tail(socket_in)

\* The datagrams the loop has taken from the socket so far, oldest first.
Received == SubSeq(wire_log, 1, Len(wire_log) - Len(socket_in))

\* A datagram of the local protocol version whose packet type is Fragment.
IsFragment(datagram) ==
    LET std == StandardHeader_read(datagram)
    IN  /\ std.err = Ok
        /\ valid_version(std.header.protocol_version)
        /\ std.header.packet_type = "Fragment"
        /\ Len(std.rest) >= 2

\* The fields of a fragment datagram as the sender lays them out: standard
\* header, fragment header, reliable header if any, then a part of the payload.
ParsedFragment(datagram) ==
    LET std == StandardHeader_read(datagram)
        frag == FragmentHeader_read(std.rest)
    IN  [sequence_num |-> std.header.sequence_num,
         delivery_method |-> std.header.delivery_method,
         id |-> frag.header.id,
         num_fragments |-> frag.header.num_fragments,
         part |-> IF std.header.delivery_method = "ReliableUnordered"
                  THEN SubSeq(frag.rest, 7, Len(frag.rest)) ELSE frag.rest]

\* The fragments of one peer's sequence number among some arrivals.
FragmentsAmong(arrivals, address, sequence_num) ==
    {ParsedFragment(arrivals[i].data) :
        i \in {j \in 1..Len(arrivals) :
                  /\ arrivals[j].address = address
                  /\ IsFragment(arrivals[j].data)
                  /\ ParsedFragment(arrivals[j].data).sequence_num = sequence_num}}

\* The parts of a complete fragment set joined in id order.
Reassembled(present, num_fragments) ==
    LET Join[n \in 0..num_fragments] ==
            IF n = 0 THEN << >>
            ELSE Join[n - 1] \o (CHOOSE f \in present : f.id = n - 1).part
    IN  Join[num_fragments]

\* C11: a received datagram of packet type Fragment yields Ok(None) and no
\* Packet event until all num_fragments fragments of its sequence number have
\* been received from the peer; the datagram that completes the set yields one
\* Packet event whose payload is the parts joined in id order.
FragmentsReassembledOnReceive ==
    [][(ReceiveStep /\ IsFragment(Head(socket_in).data)) =>
          LET arrival == Head(socket_in)
              this == ParsedFragment(arrival.data)
              wanted == 0..(this.num_fragments - 1)
              before == FragmentsAmong(Received, arrival.address, this.sequence_num)
              present == before \cup {this}
              Ids(S) == {f.id : f \in S}
          IN  IF Ids(present) # wanted
              THEN /\ last_recv'.err = Ok
                   /\ last_recv'.packet = None
                   /\ event_channel' = event_channel
              ELSE Ids(before) # wanted =>
                       event_channel' =
                           Append(event_channel,
                                  PacketEvent(Packet_new(arrival.address,
                                                         Reassembled(present, this.num_fragments),
                                                         this.delivery_method)))]_vars

\* C12: a received datagram of the local protocol version whose delivery
\* method is neither UnreliableUnordered nor ReliableUnordered is rejected with
\* an error by process_incoming and produces no Packet event.
ReservedMethodRejected ==
    [][ReceiveStep =>
          LET std == StandardHeader_read(Head(socket_in).data)
          IN  (/\ std.err = Ok
               /\ valid_version(std.header.protocol_version)
               /\ std.header.packet_type = "Packet"
               /\ std.header.delivery_method \notin SubmitMethods) =>
                  /\ last_recv'.err \notin {Ok, NoCall}
                  /\ last_recv'.packet = None
                  /\ event_channel' = event_channel]_vars

\* A well-formed unfragmented reliable datagram: local protocol version,
\* packet type Packet, delivery method ReliableUnordered, a complete reliable
\* header.
IsReliable(datagram) ==
    LET std == StandardHeader_read(datagram)
    IN  /\ std.err = Ok
        /\ valid_version(std.header.protocol_version)
        /\ std.header.packet_type = "Packet"
        /\ std.header.delivery_method = "ReliableUnordered"
        /\ ReliableHeader_read(std.rest).err = Ok

\* C13: on one connection, a reliable datagram whose sequence number was
\* already received in a reliable datagram from that peer produces no second
\* Packet event.
ReliableNotDuplicated ==
    [][(ReceiveStep /\ IsReliable(Head(socket_in).data)) =>
          LET arrival == Head(socket_in)
              sequence_num == StandardHeader_read(arrival.data).header.sequence_num
              seen == \E i \in 1..Len(Received) :
                          /\ Received[i].address = arrival.address
                          /\ IsReliable(Received[i].data)
                          /\ StandardHeader_read(Received[i].data).header.sequence_num
                                 = sequence_num
          IN  seen => event_channel' = event_channel]_vars

\* The payloads in a sequence, as a set.
PayloadSet(payloads) == {payloads[i] : i \in 1..Len(payloads)}

\* The peer's header (last_acked, ack_field) covers sequence s in its
\* 33-entry window: s = last_acked - k for a k in 0..32.
InPeerWindow(s, last_acked) == \E k \in 0..32 : (s + k) % 65536 = last_acked

\* The window marks s acknowledged: s is last_acked itself, or bit k - 1 of
\* ack_field is set for s = last_acked - k.
MarkedAcked(s, last_acked, ack_field) ==
    \/ s = last_acked
    \/ \E k \in 1..32 : (s + k) % 65536 = last_acked /\ (k - 1) \in ack_field

DeliveredToPeer(k) ==
    \E i \in 1..Len(peer_events) :
        peer_events[i] = PacketEvent(Packet_new(LocalAddress, <<10 + k>>, "ReliableUnordered"))

\* C14: every packet submitted as ReliableUnordered is eventually delivered to
\* the peer's consumer as a Packet event carrying the same payload, although
\* the network drops a datagram, while both sides keep sending reliable
\* packets and the loops run fairly.
ReliableEventuallyDelivered ==
    \A k \in 0..(MaxLinkSends - 1) : (submitted > k) ~> DeliveredToPeer(k)

\* A step of the loop that sweeps the idle connections (handle_idle_clients).
IdleStep == pc = "idle" /\ pc' = "poll"

\* The events a step publishes.
Published == SubSeq(event_channel', Len(event_channel) + 1, Len(event_channel'))

\* C16: an idle sweep removes exactly the connections whose last packet is at
\* least idle_connection_timeout old and leaves the others as they are, and
\* publishes one TimeOut event for each removed address and nothing else; no
\* other step removes a connection or publishes a TimeOut event.
IdleSweepRemovesAndReports ==
    [][/\ Len(event_channel') >= Len(event_channel)
       /\ SubSeq(event_channel', 1, Len(event_channel)) = event_channel
       /\ IdleStep =>
              LET idle == {a \in DOMAIN connections :
                              now - connections[a].last_packet_time
                                  >= config.idle_connection_timeout}
              IN  /\ DOMAIN connections' = DOMAIN connections \ idle
                  /\ \A a \in DOMAIN connections' : connections'[a] = connections[a]
                  /\ Len(Published) = Cardinality(idle)
                  /\ {Published[i] : i \in 1..Len(Published)} = {TimeOutEvent(a) : a \in idle}
       /\ ~IdleStep =>
              /\ DOMAIN connections \subseteq DOMAIN connections'
              /\ \A i \in 1..Len(Published) : Published[i].type # "TimeOut"
      ]_vars

\* A sweep has just timed out the busy peer's connection and kept the quiet
\* peer's, which is younger.
IdleSweepTookOneOfTwo ==
    /\ pc = "poll"
    /\ event_channel # << >>
    /\ event_channel[Len(event_channel)] = TimeOutEvent(BusyPeer)
    /\ DOMAIN connections = Addrs \ {BusyPeer}

\* The connection of an address is gone and a TimeOut event names the address.
TimedOut(address) ==
    /\ address \notin DOMAIN connections
    /\ \E i \in 1..Len(event_channel) : event_channel[i] = TimeOutEvent(address)

PacketEventsOf(address) ==
    SelectSeq(event_channel, LAMBDA e : e.type = "Packet" /\ e.packet.address = address)

\* The datagrams the loop has taken from the socket for a peer, oldest first.
ReceivedFrom(address) == SelectSeq(Received, LAMBDA d : d.address = address)

\* The event's payload is what the datagram carries behind its headers.
CarriedBy(event, datagram) ==
    LET payload == event.packet.payload
        skip == Len(datagram.data) - Len(payload)
    IN  /\ skip >= HEADER_SIZE
        /\ payload = SubSeq(datagram.data, skip + 1, Len(datagram.data))

\* The events can be matched, in their order, with datagrams of the log taken
\* in the log's order.
RECURSIVE InOrderOf(_, _)
InOrderOf(events, log) ==
    IF events = << >> THEN TRUE
    ELSE IF log = << >> THEN FALSE
    ELSE \/ CarriedBy(Head(events), Head(log)) /\ InOrderOf(Tail(events), Tail(log))
         \/ InOrderOf(events, Tail(log))

\* C18: for each peer, the Packet events on the event channel are in the
\* order in which the loop received the datagrams they come from.
PacketEventsInReceiveOrder ==
    \A address \in Addrs : InOrderOf(PacketEventsOf(address), ReceivedFrom(address))

\* Two datagrams of one peer with different payloads were published, and a
\* datagram that failed to decode was received as well.
TwoPublishedAroundFailure ==
    /\ Len(PacketEventsOf(BusyPeer)) = 2
    /\ PacketEventsOf(BusyPeer)[1].packet.payload # PacketEventsOf(BusyPeer)[2].packet.payload
    /\ Len(ReceivedFrom(BusyPeer)) = 3

\* The producer, the submission stamp and the sequence number of a datagram
\* the loop has sent for a producer's packet.
SentProducer(datagram) == StandardHeader_read(datagram.data).rest[1]

SentStamp(datagram) == StandardHeader_read(datagram.data).rest[2]

SentSequence(datagram) == StandardHeader_read(datagram.data).header.sequence_num

\* The datagrams of one producer leave in the order of their submission.
SentInSubmissionOrder ==
    \A i, j \in 1..Len(socket_out) :
        (i < j /\ SentProducer(socket_out[i]) = SentProducer(socket_out[j]))
            => SentStamp(socket_out[i]) < SentStamp(socket_out[j])

\* Sequence number b is later than a, the distance taken modulo 2^16.
LaterSequence(a, b) == wrapping_sub(b, a) \in 1..(U16 \div 2 - 1)

\* C19, as stated: the packets of a producer are sent in its submission
\* order, and the packets sent to one peer carry increasing sequence numbers.
ProducerOrderAndIncreasingSequence ==
    /\ SentInSubmissionOrder
    /\ \A i, j \in 1..Len(socket_out) :
           (i < j /\ socket_out[i].address = socket_out[j].address)
               => LaterSequence(SentSequence(socket_out[i]), SentSequence(socket_out[j]))

\* The step sends the oldest submission: its datagram carries the sequence
\* number of the peer's connection, or 0 when the peer has none, and leaves
\* the connection with the next number modulo 2^16.
SendsNextSequence ==
    LET address == Head(packet_channel).address
        sequence == IF address \in DOMAIN connections
                    THEN connections[address].sequence_num ELSE 0
    IN  (Len(socket_out') > Len(socket_out)) =>
            /\ Len(socket_out') = Len(socket_out) + 1
            /\ SubSeq(socket_out', 1, Len(socket_out)) = socket_out
            /\ socket_out'[Len(socket_out')].address = address
            /\ SentSequence(socket_out'[Len(socket_out')]) = sequence
            /\ connections'[address].sequence_num = (sequence + 1) % U16

\* No step but a send changes the sequence number of a connection that stays
\* in the registry.
KeepsSequences ==
    \A address \in DOMAIN connections \cap DOMAIN connections' :
        connections'[address].sequence_num = connections[address].sequence_num

\* C19, amended: the packets of a producer are sent in its submission order,
\* and while a peer's connection stays in the registry the packets sent to
\* it carry consecutive sequence numbers modulo 2^16, starting at 0 for a
\* new connection.
ProducerOrderAndSequencePerConnection ==
    [][/\ SentInSubmissionOrder'
       /\ IF socket_out' # socket_out THEN SendsNextSequence ELSE
             \/ pc = "packets" /\ packet_channel # << >>
             \/ KeepsSequences]_vars

\* Packets of the two producers left interleaved for one peer, the first
\* producer's two in the order of their submission around the other's.
ProducersInterleaved ==
    /\ Len(socket_out) = 3
    /\ \A i \in 1..3 : socket_out[i].address = BusyPeer
    /\ <<SentProducer(socket_out[1]), SentProducer(socket_out[2]),
         SentProducer(socket_out[3])>> = <<1, 2, 1>>
    /\ SentSequence(socket_out[1]) = U16 - 1
    /\ SentSequence(socket_out[3]) = 1

\* The datagram decodes: a complete standard header of the local version.
Decodes(datagram) ==
    LET std == StandardHeader_read(datagram.data)
    IN  std.err = Ok /\ valid_version(std.header.protocol_version)

\* A Packet event carrying the payload has been published.
PublishedStamped(payload) ==
    \E i \in 1..Len(event_channel) :
        event_channel[i].type = "Packet" /\ event_channel[i].packet.payload = payload

\* A datagram carrying <<n>> has been handed to the UDP socket.
SentStamped(n) ==
    \E i \in 1..Len(socket_out) : StandardHeader_read(socket_out[i].data).rest = <<n>>

\* Nothing waits on the socket or on the packet channel, and every datagram
\* that arrived and decodes has been published.
AllProcessed ==
    /\ socket_in = << >>
    /\ packet_channel = << >>
    /\ \A i \in 1..Len(wire_log) :
           Decodes(wire_log[i])
               => PublishedStamped(StandardHeader_read(wire_log[i].data).rest)

\* A step that takes a one-byte packet for a peer with a route from the
\* packet channel hands its datagram to the UDP socket.
SendsWhatItTakes ==
    (/\ packet_channel # << >>
     /\ packet_channel' = Tail(packet_channel)
     /\ Head(packet_channel).address \notin Unroutable
     /\ Len(Head(packet_channel).payload) = 1)
        => /\ Len(socket_out') = Len(socket_out) + 1
           /\ SubSeq(socket_out', 1, Len(socket_out)) = socket_out
           /\ socket_out'[Len(socket_out')].address = Head(packet_channel).address
           /\ StandardHeader_read(socket_out'[Len(socket_out')].data).rest
                  = Head(packet_channel).payload

\* C20: the loop never stops; whatever datagrams fail to decode and whatever
\* packets fail to process or send, every datagram and every submission is
\* taken by the loop in the end, every datagram that decodes is published
\* and every packet that can be processed and sent is sent.
LoopNeverStops ==
    /\ [](pc # "panicked")
    /\ [][SendsWhatItTakes]_vars
    /\ []<>AllProcessed

\* A datagram was published after one that failed to decode, and a packet
\* was sent after one that failed.
ProcessedAfterFailures ==
    /\ Len(wire_log) = 2
    /\ ~Decodes(wire_log[1])
    /\ event_channel = <<PacketEvent(Packet_new(BusyPeer, <<1>>, "UnreliableUnordered"))>>
    /\ submitted = 2
    /\ packet_channel = << >>
    /\ Len(socket_out) = 1
    /\ SentStamped(3)

\* The datagram begins with a standard header of the local protocol version:
\* eight bytes that read back as CRC32, packet type, delivery method and
\* sequence number.
BeginsWithStandardHeader(data) ==
    /\ Len(data) >= HEADER_SIZE
    /\ StandardHeader_read(data).err = Ok
    /\ StandardHeader_read(data).header.protocol_version = VERSION_CRC32

\* C21: every datagram handed to the UDP socket's send_to, re-sent dropped
\* payloads included, begins with the 8-byte standard header carrying the
\* local protocol CRC32.
SentDatagramsBeginWithStandardHeader ==
    \A i \in 1..Len(socket_out) : BeginsWithStandardHeader(socket_out[i].data)

\* The errors that reject a submitted packet: process_outgoing's size check
\* and the fragment limit of ProcessedPacket::fragments.
SubmissionErrors == {"ExceededMaxPacketSize", "ExceededMaxFragments"}

\* C22: when a submitted packet is rejected for an oversize payload or for
\* too many fragments, the caller can observe it: the step that rejects the
\* packet puts something on the event channel, the only way from the loop
\* back to the callers.
SubmissionErrorSurfaced ==
    [][(SendStep /\ last_send'.status \in SubmissionErrors)
           => event_channel' # event_channel]_vars

ReadBack(kind, h) ==
    IF kind = "fragment" /\ h.id # 0 THEN [h EXCEPT !.packet_header = None] ELSE h

RegisteredBy(address) ==
    /\ DOMAIN connections' = DOMAIN connections \cup {address}
    /\ \A a \in DOMAIN connections \ {address} : connections'[a] = connections[a]

\* The calls on the registry as it is now: get_or_insert_connection on an
\* address already present and remove_connection on an absent one change
\* nothing; get_or_insert_connection on an absent address adds one new
\* connection.
RegistryCalls ==
    \A a \in Addrs :
        IF a \in DOMAIN connections
        THEN get_or_insert_connection(connections, a, config, now) = connections
        ELSE /\ remove_connection(connections, a) = connections
             /\ DOMAIN get_or_insert_connection(connections, a, config, now)
                    = DOMAIN connections \cup {a}
             /\ get_or_insert_connection(connections, a, config, now)[a]
                    = VirtualConnection_new(a, config, now)

\* A receive step of a datagram of at least min_len bytes registers its
\* sender and keeps the state of a connection already there: the sequence
\* counter, and the ack records unless the datagram is a reliable packet.
ReceiveKeepsConnection(min_len) ==
    LET address == Head(socket_in).address
    IN  (ReceiveStep /\ Len(Head(socket_in).data) >= min_len) =>
            /\ RegisteredBy(address)
            /\ address \in DOMAIN connections =>
                   /\ connections'[address].sequence_num = connections[address].sequence_num
                   /\ ~IsReliable(Head(socket_in).data) =>
                          /\ connections'[address].external_acks
                                 = connections[address].external_acks
                          /\ connections'[address].local_acks = connections[address].local_acks

\* A send step registers the packet's address and keeps the state of a
\* connection already there: the external ack record, the sent payloads
\* awaiting acknowledgement, and the sequence counter or its successor.
SendKeepsConnection ==
    LET address == Head(packet_channel).address
    IN  SendStep =>
            /\ RegisteredBy(address)
            /\ address \in DOMAIN connections =>
                   /\ connections'[address].external_acks = connections[address].external_acks
                   /\ DOMAIN connections[address].local_acks
                          \subseteq DOMAIN connections'[address].local_acks
                   /\ connections'[address].sequence_num
                          \in {connections[address].sequence_num,
                               wrapping_add(connections[address].sequence_num, 1)}

\* No other step adds a connection or changes one that stays.
OthersKeepConnections ==
    (~ReceiveStep /\ ~SendStep) =>
        /\ DOMAIN connections' \subseteq DOMAIN connections
        /\ \A a \in DOMAIN connections' : connections'[a] = connections[a]

DetectedDropped(conn, data) ==
    IF IsReliable(data)
    THEN LET header == ReliableHeader_read(StandardHeader_read(data).rest).header
             dropped == LocalAckRecord_ack(conn.local_acks, header.last_acked,
                                           header.ack_field).dropped
         IN  [i \in 1..Len(dropped) |-> dropped[i].payload]
    ELSE << >>

\* C31: the dropped-packets queue holds exactly the payloads detected as
\* dropped since the last drain: a receive step appends the newly detected
\* payloads to the ones not yet drained, and a send step that drains hands
\* all of them to the socket and leaves the queue empty.
DroppedQueueHoldsUndrained ==
    [][/\ (ReceiveStep /\ Head(socket_in).address \in DOMAIN connections') =>
              LET address == Head(socket_in).address
                  before == ConnectionBefore(address)
              IN  connections'[address].dropped_packets
                      = before.dropped_packets \o DetectedDropped(before, Head(socket_in).data)
       /\ (SendStep /\ last_send'.processed # None) =>
              LET address == Head(packet_channel).address
                  before == ConnectionBefore(address).dropped_packets
              IN  /\ connections'[address].dropped_packets = << >>
                  /\ SubSeq(last_send'.datagrams, 1, Len(before))
                         = [i \in 1..Len(before) |-> [address |-> address, data |-> before[i]]]
      ]_vars

\* C32: a send step whose packet passes process_outgoing attaches to a
\* ReliableUnordered packet a reliability header whose last_acked and
\* ack_field are those of the connection's external ack record as the call
\* finds it, and the unfragmented datagram carries them behind the standard
\* header; a packet of another delivery method gets no reliability header.
OutgoingHeaderIsExternalRecord ==
    [][(SendStep /\ last_send'.processed # None) =>
          LET packet == Head(packet_channel)
              record == ConnectionBefore(packet.address).external_acks
              processed == last_send'.processed[1]
          IN  IF packet.delivery_method = "ReliableUnordered"
              THEN /\ processed.reliability # None
                   /\ processed.reliability[1].last_acked = record.last_sequence_num
                   /\ processed.reliability[1].ack_field = record.ack_field
                   /\ connections'[packet.address].external_acks = record
                   /\ Len(last_send'.fragments) = 1 =>
                          ReliableHeader_read(
                              StandardHeader_read(last_send'.fragments[1]).rest).header
                              = [last_acked |-> record.last_sequence_num,
                                 ack_field |-> record.ack_field]
              ELSE /\ processed.reliability = None
                   /\ Len(last_send'.fragments) = 1 =>
                          StandardHeader_read(last_send'.fragments[1]).rest = packet.payload
      ]_vars

\* A reliable packet has been sent to the busy peer after its reliable
\* datagram 7 was received: the header acknowledges 7.
SentHeaderAcknowledgesReceived ==
    /\ last_send.status = Ok
    /\ last_send.processed # None
    /\ last_send.processed[1].reliability # None
    /\ last_send.processed[1].reliability[1].last_acked = 7
    /\ BusyPeer \in DOMAIN connections
    /\ connections[BusyPeer].external_acks.last_sequence_num = 7

\* C33: a congestion sample for sequence s is inserted when a reliable packet
\* with sequence s is processed for sending, and after a receive step whose
\* reliable header acknowledges s (last_acked = s) no sample for s remains.
CongestionSampleRemovedOnAck ==
    [][/\ (SendStep /\ Head(packet_channel).delivery_method = "ReliableUnordered"
           /\ last_send'.processed # None) =>
              SequenceBuffer_get_mut(connections'[Head(packet_channel).address].congestion_data,
                                     last_send'.processed[1].sequence_num) # None
       /\ (ReceiveStep /\ IsReliable(Head(socket_in).data)) =>
              LET address == Head(socket_in).address
                  header == ReliableHeader_read(
                                StandardHeader_read(Head(socket_in).data).rest).header
              IN  SequenceBuffer_get_mut(connections'[address].congestion_data,
                                         header.last_acked) = None
      ]_vars

\* C34: every process_incoming call (a receive step of a datagram of at
\* least one byte), also one that fails, sets the connection's last-packet
\* time to the current time; nothing else changes it: a send step keeps the
\* time of a connection already there, every other step keeps the time of
\* every connection that stays, and the idle sweep reaps a connection whose
\* time is idle_connection_timeout old whatever has been sent to it.
LastPacketTimeSetByIncomingOnly ==
    [][/\ (ReceiveStep /\ Head(socket_in).data # << >>) =>
              connections'[Head(socket_in).address].last_packet_time = now
       /\ (SendStep /\ Head(packet_channel).address \in DOMAIN connections) =>
              connections'[Head(packet_channel).address].last_packet_time
                  = connections[Head(packet_channel).address].last_packet_time
       /\ \A a \in DOMAIN connections \cap DOMAIN connections' :
              (~(ReceiveStep /\ Head(socket_in).address = a)) =>
                  connections'[a].last_packet_time = connections[a].last_packet_time
       /\ IdleStep =>
              \A a \in DOMAIN connections :
                  (now - connections[a].last_packet_time >= config.idle_connection_timeout)
                      => a \notin DOMAIN connections'
      ]_vars

\* The busy peer never sent a datagram; two packets were sent to it, the
\* second when its connection was already idle_connection_timeout old, and
\* the next sweep reaped the connection.
SentToButReaped ==
    /\ arrived = 0
    /\ Len(socket_out) >= 2
    /\ \A i \in 1..Len(socket_out) : socket_out[i].address = BusyPeer
    /\ event_channel = <<TimeOutEvent(BusyPeer)>>
    /\ BusyPeer \notin DOMAIN connections

\* A datagram of the busy peer that failed on decoding or version has set
\* the last-packet time of the connection it found.
FailedDatagramSetTime ==
    /\ last_recv.address = Some(BusyPeer)
    /\ last_recv.err \notin {Ok, NoCall}
    /\ last_recv.data # << >>
    /\ BusyPeer \in DOMAIN connections
    /\ connections[BusyPeer].last_packet_time = 1
    /\ connections[BusyPeer].sequence_num = 1

\* How many TimeOut events for the address have been published.
TimeOuts(address) ==
    Cardinality({i \in 1..Len(event_channel) : event_channel[i] = TimeOutEvent(address)})

\* How many datagrams of the address were published as packets, and how many
\* datagrams were sent to it.
Traffic(address) ==
    Cardinality({i \in 1..Len(event_channel) :
                    /\ event_channel[i].type = "Packet"
                    /\ event_channel[i].packet.address = address})
        + Cardinality({i \in 1..Len(socket_out) : socket_out[i].address = address})

\* C35: TimeOut(addr) is published at most once for a connection: the sweep
\* that publishes it finds the address registered, publishes it once and
\* leaves the address unregistered, and an unregistered address becomes
\* registered only by a receive step of a datagram from it or a send step of
\* a packet to it; so there are never more TimeOut events for an address
\* than datagrams received from and sent to it.
TimeOutOncePerConnection ==
    /\ [](\A a \in Addrs : TimeOuts(a) <= Traffic(a))
    /\ [][\A a \in Addrs :
             /\ (\E i \in 1..Len(Published) : Published[i] = TimeOutEvent(a)) =>
                    /\ IdleStep
                    /\ a \in DOMAIN connections
                    /\ a \notin DOMAIN connections'
                    /\ Cardinality({i \in 1..Len(Published) : Published[i] = TimeOutEvent(a)}) = 1
             /\ (a \notin DOMAIN connections /\ a \in DOMAIN connections') =>
                    \/ ReceiveStep /\ Head(socket_in).address = a
                    \/ SendStep /\ Head(packet_channel).address = a
        ]_vars

\* The busy peer has timed out twice, with a datagram or a packet between.
TimedOutTwice == TimeOuts(BusyPeer) = 2

\* The datagrams a send step hands to the socket are the payloads queued as
\* dropped on the peer's connection, in their order, and then the fragments
\* of the submitted packet; the queue is empty afterwards.
DrainedThenFragments ==
    LET address == Head(packet_channel).address
        before == ConnectionBefore(address).dropped_packets
    IN  /\ socket_out' = socket_out
               \o [i \in 1..Len(before) |-> [address |-> address, data |-> before[i]]]
               \o [i \in 1..Len(last_send'.fragments) |->
                      [address |-> address, data |-> last_send'.fragments[i]]]
        /\ connections'[address].dropped_packets = << >>

\* C36, as stated: within every send of a submitted packet the dropped
\* payloads of the peer's connection are sent before any fragment of the
\* packet, and the connection's dropped queue is empty afterwards.
DroppedSentBeforeFragments ==
    [][SendStep => DrainedThenFragments]_vars

\* C36, amended: as stated for a packet that passes process_outgoing; a
\* packet refused by it sends nothing and leaves the dropped queue as it was.
DroppedSentBeforeFragmentsIfAccepted ==
    [][SendStep =>
          IF last_send'.processed # None THEN DrainedThenFragments
          ELSE /\ socket_out' = socket_out
               /\ connections'[Head(packet_channel).address].dropped_packets
                      = ConnectionBefore(Head(packet_channel).address).dropped_packets
      ]_vars

\* The latest send handed the socket a dropped payload and then the two
\* fragments of the submitted packet.
DroppedSentAheadOfTwoFragments ==
    /\ Len(last_send.fragments) = 2
    /\ Len(last_send.datagrams) = 3
    /\ last_send.datagrams[1].data = <<10>>
    /\ connections[BusyPeer].dropped_packets = << >>

\* A receive step whose datagram is rejected: receive_from returns an error.
RejectedStep == ReceiveStep /\ last_recv'.err # Ok

\* C38, as stated: a rejected datagram (empty, shorter than the standard
\* header, or of another protocol version) does not create a connection for
\* its source address, so a TimeOut event is published only for a peer whose
\* datagram was published as a packet, that was sent to, or that the registry
\* held from the start.
RejectedCreatesNoConnection ==
    /\ [][RejectedStep => DOMAIN connections' = DOMAIN connections]_vars
    /\ [](\A a \in Addrs :
             TimeOuts(a) >= 1 =>
                 \/ Traffic(a) >= 1
                 \/ config = SmallConfig(2, 3))

\* C38, amended: an empty datagram leaves the registry as it is; a rejected
\* datagram of at least one byte publishes nothing but leaves a connection
\* for its source address registered (created if there was none); an address
\* becomes registered only by a receive step of a datagram of at least one
\* byte from it or by a send step of a packet to it, and a TimeOut event is
\* published only for a registered address.
RejectedNonEmptyCreatesConnection ==
    [][/\ RejectedStep =>
              /\ event_channel' = event_channel
              /\ IF Head(socket_in).data = << >>
                 THEN connections' = connections
                 ELSE DOMAIN connections' = DOMAIN connections \cup {Head(socket_in).address}
       /\ \A a \in Addrs :
              /\ (a \notin DOMAIN connections /\ a \in DOMAIN connections') =>
                     \/ /\ ReceiveStep
                        /\ Head(socket_in).address = a
                        /\ Head(socket_in).data # << >>
                     \/ SendStep /\ Head(packet_channel).address = a
              /\ (\E i \in 1..Len(Published) : Published[i] = TimeOutEvent(a)) =>
                     a \in DOMAIN connections
      ]_vars

\* The busy peer, unknown at the start, sent one datagram that was rejected,
\* was never sent to, and has timed out.
RejectedPeerTimedOut ==
    /\ config = SmallConfig(1, 2)
    /\ arrived = 1
    /\ last_recv.address = Some(BusyPeer)
    /\ last_recv.err \notin {Ok, NoCall}
    /\ socket_out = << >>
    /\ last_send = NoSend
    /\ event_channel = <<TimeOutEvent(BusyPeer)>>

SentSequences(address) ==
    LET sent == SelectSeq(socket_out, LAMBDA d : d.address = address)
    IN  [i \in 1..Len(sent) |-> StandardHeader_read(sent[i].data).header.sequence_num]

\* The places where the sequence numbers sent to the address do not go on by
\* one modulo 2^16.
Restarts(address) ==
    {i \in 1..(Len(SentSequences(address)) - 1) :
        SentSequences(address)[i + 1] # wrapping_add(SentSequences(address)[i], 1)}

\* C40, as stated: the sequence numbers of the packets sent to one address
\* are consecutive modulo 2^16 over the whole run, also across an idle
\* eviction of the connection and its re-creation.
SequencesConsecutiveAcrossEviction ==
    \A a \in Addrs : Restarts(a) = {}

\* C40, amended: the sequence numbers of the packets sent to one address are
\* consecutive modulo 2^16 except where they start again at 0, and they
\* start again no more often than the address has timed out.
SequencesConsecutiveWithinConnection ==
    \A a \in Addrs :
        /\ \A i \in Restarts(a) : SentSequences(a)[i + 1] = 0
        /\ Cardinality(Restarts(a)) <= TimeOuts(a)

\* The busy peer was sent sequence 0, timed out, and was sent sequence 0
\* again.
SequenceRestartedAfterEviction ==
    /\ SentSequences(BusyPeer) = <<0, 0>>
    /\ TimeOuts(BusyPeer) >= 1

\* The sequence numbers sent to the busy peer went on from 65535 to 0.
SequenceWrapped == SentSequences(BusyPeer) = <<65535, 0>>

\* What C9 says of the datagram taken by a receive step, for datagrams of at
\* least min_len bytes.
VersionChecked(min_len) ==
    ReceiveStep =>
        LET datagram == Head(socket_in)
            data == datagram.data
            before == ConnectionBefore(datagram.address)
            after == connections'[datagram.address]
        IN  /\ (Len(data) >= min_len /\ read_u32(SubSeq(data, 1, 4)) # get_crc32) =>
                  /\ last_recv'.err = "ProtocolVersionMismatch"
                  /\ event_channel' = event_channel
                  /\ after.external_acks = before.external_acks
                  /\ after.local_acks = before.local_acks
                  /\ after.dropped_packets = before.dropped_packets
            /\ ( /\ Len(data) >= HEADER_SIZE
                 /\ read_u32(SubSeq(data, 1, 4)) = get_crc32
                 /\ SubSeq(data, 7, 8) = <<0, 7>> ) =>
                  /\ last_recv'.err # "ProtocolVersionMismatch"
                  /\ StandardHeader_read(data).header.sequence_num = 7
                  /\ (last_recv'.err = Ok /\ data[6] = 1) =>
                        after.external_acks = ExternalAcks_ack(before.external_acks, 7)

ShortDatagramIsTooShortError ==
    [][ ReceiveStep =>
            LET data == Head(socket_in).data
            IN  (0 < Len(data) /\ Len(data) < HEADER_SIZE) =>
                    /\ last_recv'.err = "ReceivedDataTooShort"
                    /\ event_channel' = event_channel
      ]_vars

=============================================================================
